---------------------------- MODULE Spec2Model ----------------------------
(***************************************************************************)
(* Verification model of the metric_depth evaluation core of LLM-DepthEval *)
(* (metrics.py, utils.py, evaluation.py).                                  *)
(*                                                                         *)
(* Numbers.  A float is modelled as an extended rational <<n, d>> in       *)
(* lowest terms with d >= 0: d > 0 is the finite value n/d, <<1,0>> is     *)
(* +inf, <<-1,0>> is -inf and <<0,0>> is NaN, with the IEEE rules numpy    *)
(* applies to division by zero, to inf - inf and to comparisons with NaN.  *)
(* Rounding error and the sign of zero are not modelled: finite arithmetic *)
(* is exact.  An irrational square root is kept as the surd <<n, d, 2>>.   *)
(*                                                                         *)
(* Arrays.  An ndarray is a record [kind, shape, data] with data the       *)
(* row-major flattening; a Python list is kind "list"; None is NoneVal.    *)
(*                                                                         *)
(* Calls.  Every modelled function returns an outcome record               *)
(* [status, value, steps]: status is "ok" or the name of the exception     *)
(* raised, steps lists the stages of the body that ran before.             *)
(***************************************************************************)
EXTENDS Integers, Sequences, FiniteSets, TLC

VARIABLES
    pc,             \* position of the driver / of evaluate()
    fn,             \* name of the function the driver called last
    gt,             \* ground-truth argument
    pred,           \* prediction argument
    mask,           \* mask argument (NoneVal when omitted)
    patch_size,     \* patch_size argument (NoPatch when omitted)
    kwargs,         \* the other arguments of the call, by name
    ret,            \* outcome of the call
    self,           \* the DepthEvaluator: its three injected strategies
    pred_resized,   \* local of _prepare
    ev_mask,        \* local of _prepare / evaluate
    pred_prep,      \* local of evaluate (the aligned prediction)
    results,        \* local of evaluate: the result dict under construction
    calls,          \* log of the calls evaluate made: <<[f, args]>>
    reused          \* TRUE once the evaluator has completed an evaluate call

vars == <<pc, fn, gt, pred, mask, patch_size, kwargs, ret, self,
          pred_resized, ev_mask, pred_prep, results, calls, reused>>

---------------------------------------------------------------------------
(* Bounds of the model.                                                    *)

\* largest number of elements of a 1-D input of the metric functions
MaxLen == 2
\* largest number of pixels of a prediction fitted to an affine image of itself
MaxFit == 3
\* largest number of pixels H * W of an image handed to the patch partitioner
MaxPix == 4
\* largest patch height and width (patch sizes range over -1..MaxPatch)
MaxPatch == 2

---------------------------------------------------------------------------
(* Extended rational arithmetic (numpy float semantics, exact).            *)

Abs(n) == IF n < 0 THEN -n ELSE n

Sign(n) == IF n > 0 THEN 1 ELSE IF n < 0 THEN -1 ELSE 0

RECURSIVE Gcd(_, _)
Gcd(a, b) == IF b = 0 THEN a ELSE Gcd(b, a % b)

Norm(n, d) ==
    IF d = 0 THEN <<Sign(n), 0>>
    ELSE LET g == Gcd(Abs(n), Abs(d))
             s == IF d < 0 THEN -1 ELSE 1
         IN  <<(s * n) \div g, (s * d) \div g>>

NaN == <<0, 0>>
PInf == <<1, 0>>
NInf == <<-1, 0>>
Zero == <<0, 1>>
One == <<1, 1>>
R(n) == <<n, 1>>

IsNaN(a) == a = NaN
IsFinite(a) == a[2] > 0

FNeg(a) == <<-a[1], a[2]>>

FAbs(a) == <<Abs(a[1]), a[2]>>

FAdd(a, b) ==
    IF IsNaN(a) \/ IsNaN(b) THEN NaN
    ELSE IF a[2] = 0 /\ b[2] = 0 THEN (IF a = b THEN a ELSE NaN)
    ELSE IF a[2] = 0 THEN a
    ELSE IF b[2] = 0 THEN b
    ELSE Norm(a[1] * b[2] + b[1] * a[2], a[2] * b[2])

FSub(a, b) == FAdd(a, FNeg(b))

FMul(a, b) == Norm(a[1] * b[1], a[2] * b[2])

\* a / b: x/0 is +-inf (NaN for 0/0), x/inf is 0, inf/inf is NaN
FDiv(a, b) ==
    LET s == IF b[1] < 0 THEN -1 ELSE 1
    IN  Norm(s * a[1] * b[2], s * a[2] * b[1])

\* a < b; every comparison with NaN is False
FLt(a, b) ==
    IF IsNaN(a) \/ IsNaN(b) THEN FALSE
    ELSE IF a = b THEN FALSE
    ELSE IF a = NInf \/ b = PInf THEN TRUE
    ELSE IF a = PInf \/ b = NInf THEN FALSE
    ELSE a[1] * b[2] < b[1] * a[2]

FGt(a, b) == FLt(b, a)

\* np.maximum: NaN if either operand is NaN
FMax(a, b) ==
    IF IsNaN(a) \/ IsNaN(b) THEN NaN
    ELSE IF FLt(a, b) THEN b ELSE a

IsSquare(n) == \E r \in 0..n : r * r = n
ISqrt(n) == CHOOSE r \in 0..n : r * r = n

\* np.sqrt: NaN for NaN and for negatives, exact root of a rational square,
\* the surd <<n, d, 2>> otherwise
FSqrt(a) ==
    IF IsNaN(a) THEN NaN
    ELSE IF a[2] = 0 THEN (IF a = PInf THEN PInf ELSE NaN)
    ELSE IF a[1] < 0 THEN NaN
    ELSE IF IsSquare(a[1]) /\ IsSquare(a[2]) THEN <<ISqrt(a[1]), ISqrt(a[2])>>
    ELSE <<a[1], a[2], 2>>

RECURSIVE FSum(_)
FSum(s) == IF s = << >> THEN Zero ELSE FAdd(s[1], FSum(Tail(s)))

\* variant of FMean: an empty sequence is guarded and averages to 0
FMeanGuarded(s) == IF s = << >> THEN Zero ELSE FDiv(FSum(s), R(Len(s)))

\* np.mean of a float sequence: sum / count, NaN (0/0) when empty
FMean(s) == FDiv(FSum(s), R(Len(s)))

\* np.mean of a boolean sequence: fraction of True, NaN when empty
BMean(s) == FDiv(R(Cardinality({i \in 1..Len(s) : s[i]})), R(Len(s)))

---------------------------------------------------------------------------
(* Arrays.                                                                 *)

NoneVal == [kind |-> "None", shape |-> << >>, data |-> << >>]

NdArray(sh, d) == [kind |-> "ndarray", shape |-> sh, data |-> d]

PyList(d) == [kind |-> "list", shape |-> << >>, data |-> d]

IsNdArray(a) == a.kind = "ndarray"

RECURSIVE Prod(_)
Prod(s) == IF s = << >> THEN 1 ELSE s[1] * Prod(Tail(s))

\* the subsequence of d at the positions where keep is TRUE, in order
RECURSIVE Select(_, _)
Select(d, keep) ==
    IF d = << >> THEN << >>
    ELSE IF keep[1] THEN <<d[1]>> \o Select(Tail(d), Tail(keep))
    ELSE Select(Tail(d), Tail(keep))

IsPrefix(s, t) == Len(s) <= Len(t) /\ \A i \in 1..Len(s) : s[i] = t[i]

\* a[m] is defined when the boolean array m matches a along the leading
\* dimensions it indexes; numpy raises IndexError otherwise
CanIndex(a, m) == IsNdArray(m) /\ Len(m.shape) >= 1 /\ IsPrefix(m.shape, a.shape)

\* variant of BoolIndex: the mask is ignored and every element is kept
BoolIndexAll(a, m) == a.data

\* a[m] for a boolean array m: the selected elements, row-major.  A mask with
\* fewer dimensions than a selects whole sub-arrays along the leading axes.
BoolIndex(a, m) ==
    LET inner == Len(a.data) \div (IF Len(m.data) = 0 THEN 1 ELSE Len(m.data))
        keep == [i \in 1..Len(a.data) |-> m.data[((i - 1) \div inner) + 1]]
    IN  IF Len(m.data) = 0 THEN << >> ELSE Select(a.data, keep)

---------------------------------------------------------------------------
(* Outcomes.                                                               *)

Returned(v, st) == [status |-> "ok", value |-> v, steps |-> st]

Raised(e, st) == [status |-> e, value |-> << >>, steps |-> st]

NoRet == [status |-> "none", value |-> << >>, steps |-> << >>]

---------------------------------------------------------------------------
(* metrics.py                                                              *)

\* variant of _validate_inputs: the shape check first, so that a list fails on
\* its missing .shape before the type check is reached
ValidateShapeFirst(g, p) ==
    IF ~IsNdArray(g) \/ ~IsNdArray(p) THEN "AttributeError"
    ELSE IF g.shape # p.shape THEN "ValueError"
    ELSE "ok"

\* _validate_inputs: the type check first, then the shape check
_validate_inputs(g, p) ==
    IF ~IsNdArray(g) \/ ~IsNdArray(p) THEN "TypeError"
    ELSE IF g.shape # p.shape THEN "ValueError"
    ELSE "ok"

\* variant of MetricPrologue: the mask is applied before the inputs are validated
MetricPrologueMaskFirst(g, p, m) ==
    LET v == _validate_inputs(g, p)
        st == IF m.kind = "None" THEN <<"validate">> ELSE <<"mask", "validate">>
    IN  IF v # "ok" THEN Raised(v, st)
        ELSE IF m.kind = "None" THEN Returned(<<g.data, p.data>>, st)
        ELSE IF ~CanIndex(g, m) THEN Raised("IndexError", <<"mask">>)
        ELSE Returned(<<BoolIndex(g, m), BoolIndex(p, m)>>, st)

\* the common prologue of the three metrics: validate, then filter both
\* arrays by the mask when one is given.  value is <<gt', pred'>> (flat).
MetricPrologue(g, p, m) ==
    LET v == _validate_inputs(g, p)
    IN  IF v # "ok" THEN Raised(v, <<"validate">>)
        ELSE IF m.kind = "None" THEN Returned(<<g.data, p.data>>, <<"validate">>)
        ELSE IF ~CanIndex(g, m) THEN Raised("IndexError", <<"validate", "mask">>)
        ELSE Returned(<<BoolIndex(g, m), BoolIndex(p, m)>>, <<"validate", "mask">>)

\* variant of AbsRelOf: the error is taken relative to pred
AbsRelOverPred(gs, ps) ==
    FMean([i \in 1..Len(gs) |-> FDiv(FAbs(FSub(gs[i], ps[i])), ps[i])])

\* np.mean(np.abs(gt - pred) / gt)
AbsRelOf(gs, ps) ==
    FMean([i \in 1..Len(gs) |-> FDiv(FAbs(FSub(gs[i], ps[i])), gs[i])])

abs_rel(g, p, m) ==
    LET pro == MetricPrologue(g, p, m)
    IN  IF pro.status # "ok" THEN pro
        ELSE Returned(AbsRelOf(pro.value[1], pro.value[2]),
                      pro.steps \o <<"arith">>)

\* max_ratio = np.maximum(gt / pred, pred / gt); np.mean(max_ratio < threshold)
ThresholdOf(gs, ps, threshold) ==
    BMean([i \in 1..Len(gs) |->
              FLt(FMax(FDiv(gs[i], ps[i]), FDiv(ps[i], gs[i])), threshold)])

threshold_accuracy(g, p, threshold, m) ==
    LET pro == MetricPrologue(g, p, m)
    IN  IF pro.status # "ok" THEN pro
        ELSE Returned(ThresholdOf(pro.value[1], pro.value[2], threshold),
                      pro.steps \o <<"arith">>)

\* np.sqrt(np.mean((gt - pred) ** 2))
MseOf(gs, ps) ==
    FMean([i \in 1..Len(gs) |->
              FMul(FSub(gs[i], ps[i]), FSub(gs[i], ps[i]))])

\* variant of RmseOf: the square root is not taken
RmseNoRoot(gs, ps) == MseOf(gs, ps)

RmseOf(gs, ps) == FSqrt(MseOf(gs, ps))

rmse(g, p, m) ==
    LET pro == MetricPrologue(g, p, m)
    IN  IF pro.status # "ok" THEN pro
        ELSE Returned(RmseOf(pro.value[1], pro.value[2]),
                      pro.steps \o <<"arith">>)

\* the default threshold of threshold_accuracy and the one evaluation.py passes
Delta1Threshold == <<5, 4>>

---------------------------------------------------------------------------
(* utils.py: compute_valid_mask                                            *)

\* variant of compute_valid_mask: invalid_val is ignored, the test is gt > 0
ValidMaskDefaultOnly(g, invalid_val) ==
    IF ~IsNdArray(g) THEN Raised("TypeError", << >>)
    ELSE Returned(NdArray(g.shape, [i \in 1..Len(g.data) |-> FGt(g.data[i], Zero)]),
                  <<"compare">>)

\* variant of compute_valid_mask: gt >= invalid_val
ValidMaskInclusive(g, invalid_val) ==
    IF ~IsNdArray(g) THEN Raised("TypeError", << >>)
    ELSE Returned(NdArray(g.shape,
                          [i \in 1..Len(g.data) |-> ~FLt(g.data[i], invalid_val)]),
                  <<"compare">>)

\* gt > invalid_val, elementwise
compute_valid_mask(g, invalid_val) ==
    IF ~IsNdArray(g) THEN Raised("TypeError", << >>)
    ELSE Returned(NdArray(g.shape,
                          [i \in 1..Len(g.data) |-> FGt(g.data[i], invalid_val)]),
                  <<"compare">>)

DefaultInvalidVal == Zero

---------------------------------------------------------------------------
(* utils.py: scale_and_shift_align                                         *)

SumOf(Op(_), n) == FSum([i \in 1..n |-> Op(i)])

\* variant of Lstsq: a rank-deficient system falls back to slope 0 and the mean
\* of y as the shift
LstsqMeanFallback(xs, ys) ==
    LET n == Len(xs)
        Sx == FSum(xs)
        Sy == FSum(ys)
        Sxx == SumOf(LAMBDA i : FMul(xs[i], xs[i]), n)
        Sxy == SumOf(LAMBDA i : FMul(xs[i], ys[i]), n)
        det == FSub(FMul(R(n), Sxx), FMul(Sx, Sx))
    IN  IF n = 0 THEN <<Zero, Zero>>
        ELSE IF det # Zero
        THEN <<FDiv(FSub(FMul(R(n), Sxy), FMul(Sx, Sy)), det),
               FDiv(FSub(FMul(Sxx, Sy), FMul(Sx, Sxy)), det)>>
        ELSE <<Zero, FDiv(Sy, R(n))>>

\* np.linalg.lstsq([x | 1], y, rcond=None)[0]: the least-squares (alpha, beta);
\* the minimum-norm one when the system is rank deficient (all x equal), and
\* zeros when there is no row at all
Lstsq(xs, ys) ==
    LET n == Len(xs)
        Sx == FSum(xs)
        Sy == FSum(ys)
        Sxx == SumOf(LAMBDA i : FMul(xs[i], xs[i]), n)
        Sxy == SumOf(LAMBDA i : FMul(xs[i], ys[i]), n)
        det == FSub(FMul(R(n), Sxx), FMul(Sx, Sx))
    IN  IF n = 0 THEN <<Zero, Zero>>
        ELSE IF det # Zero
        THEN <<FDiv(FSub(FMul(R(n), Sxy), FMul(Sx, Sy)), det),
               FDiv(FSub(FMul(Sxx, Sy), FMul(Sx, Sxy)), det)>>
        ELSE LET c == xs[1]
                 ybar == FDiv(Sy, R(n))
                 q == FAdd(FMul(c, c), One)
             IN  <<FDiv(FMul(ybar, c), q), FDiv(ybar, q)>>

\* variant of AlignMask: the default keeps the zero pixels too (gt >= 0)
AlignMaskNonNegative(g, m) ==
    IF m.kind = "None"
    THEN NdArray(g.shape, [i \in 1..Len(g.data) |-> ~FLt(g.data[i], Zero)])
    ELSE m

\* the mask the fit uses: the argument, or gt > 0 when it is omitted
AlignMask(g, m) ==
    IF m.kind = "None"
    THEN NdArray(g.shape, [i \in 1..Len(g.data) |-> FGt(g.data[i], Zero)])
    ELSE m

\* (alpha, beta) fitted on the masked pixels
AlignParams(p, g, m) ==
    Lstsq(BoolIndex(p, AlignMask(g, m)), BoolIndex(g, AlignMask(g, m)))

\* variant of ApplyAffine: only the pixels the fit used are transformed
ApplyAffineMaskedOnly(ab, p) ==
    LET m == AlignMask(gt, mask)
    IN  NdArray(p.shape,
                [i \in 1..Len(p.data) |->
                    IF i <= Len(m.data) /\ ~m.data[i] THEN p.data[i]
                    ELSE FAdd(FMul(ab[1], p.data[i]), ab[2])])

\* variant of ApplyAffine: the shift is dropped, only the scale is applied
ApplyScaleOnly(ab, p) ==
    NdArray(p.shape, [i \in 1..Len(p.data) |-> FMul(ab[1], p.data[i])])

\* alpha * pred + beta, at every pixel of pred
ApplyAffine(ab, p) ==
    NdArray(p.shape, [i \in 1..Len(p.data) |-> FAdd(FMul(ab[1], p.data[i]), ab[2])])

\* variant of scale_and_shift_align: the shapes are not compared
AlignNoShapeCheck(p, g, m) ==
    IF ~IsNdArray(p) \/ ~IsNdArray(g) THEN Raised("AttributeError", << >>)
    ELSE IF ~CanIndex(p, AlignMask(g, m)) \/ ~CanIndex(g, AlignMask(g, m))
    THEN Raised("IndexError", <<"mask">>)
    ELSE Returned(ApplyAffine(AlignParams(p, g, m), p), <<"mask", "lstsq", "apply">>)

scale_and_shift_align(p, g, m) ==
    IF ~IsNdArray(p) \/ ~IsNdArray(g) THEN Raised("AttributeError", << >>)
    ELSE IF p.shape # g.shape THEN Raised("ValueError", <<"shape">>)
    ELSE IF ~CanIndex(p, AlignMask(g, m)) THEN Raised("IndexError", <<"shape", "mask">>)
    ELSE Returned(ApplyAffine(AlignParams(p, g, m), p),
                  <<"shape", "mask", "lstsq", "apply">>)

---------------------------------------------------------------------------
(* utils.py: resize_depth_map (cv2.resize on a 2-D single-channel map)     *)

\* cv2.INTER_NEAREST: destination index k of d reads source index
\* min(floor(k * s / d), s - 1)
NearestTap(k, s, d) ==
    LET i == (k * s) \div d
    IN  [lo |-> IF i > s - 1 THEN s - 1 ELSE i, w |-> Zero]

\* cv2.INTER_LINEAR: destination index k of d reads source coordinate
\* (k + 1/2) * s / d - 1/2, clamped to the source, as the index below it and
\* the weight of the index above it
LinearTap(k, s, d) ==
    LET num == (2 * k + 1) * s - d
        den == 2 * d
        i == num \div den
    IN  IF i < 0 THEN [lo |-> 0, w |-> Zero]
        ELSE IF i >= s - 1 THEN [lo |-> s - 1, w |-> Zero]
        ELSE [lo |-> i, w |-> Norm(num - i * den, den)]

\* variant of Tap: only "linear" selects bilinear, every other flag nearest
TapLinearByName(interpolation, k, s, d) ==
    IF interpolation = "linear" THEN LinearTap(k, s, d) ELSE NearestTap(k, s, d)

\* inter = cv2.INTER_NEAREST if interpolation == "nearest" else cv2.INTER_LINEAR
Tap(interpolation, k, s, d) ==
    IF interpolation = "nearest" THEN NearestTap(k, s, d) ELSE LinearTap(k, s, d)

\* (1 - w) * a + w * b
Lerp(a, b, w) == FAdd(FMul(FSub(One, w), a), FMul(w, b))

\* the resized map: rows then columns interpolated separably
ResizeData(depth, H2, W2, interpolation) ==
    LET H == depth.shape[1]
        W == depth.shape[2]
        At(y, x) == depth.data[y * W + x + 1]
        Row(y, tx) == Lerp(At(y, tx.lo),
                           At(y, IF tx.lo + 1 < W THEN tx.lo + 1 ELSE tx.lo), tx.w)
        Pix(i, j) ==
            LET ty == Tap(interpolation, i, H, H2)
                tx == Tap(interpolation, j, W, W2)
            IN  Lerp(Row(ty.lo, tx),
                     Row(IF ty.lo + 1 < H THEN ty.lo + 1 ELSE ty.lo, tx), ty.w)
    IN  [n \in 1..(H2 * W2) |-> Pix((n - 1) \div W2, (n - 1) % W2)]

\* cv2.resize(depth, (target_shape[1], target_shape[0]), interpolation=inter),
\* for a 2-D depth
resize_depth_map(depth, target_shape, interpolation) ==
    IF ~IsNdArray(depth) THEN Raised("TypeError", << >>)
    ELSE IF Len(target_shape) < 2 THEN Raised("IndexError", << >>)
    ELSE IF Prod(depth.shape) = 0 \/ target_shape[1] < 1 \/ target_shape[2] < 1
    THEN Raised("cv2.error", <<"resize">>)
    ELSE Returned(NdArray(<<target_shape[1], target_shape[2]>>,
                          ResizeData(depth, target_shape[1], target_shape[2],
                                     interpolation)),
                  <<"resize">>)

DefaultInterpolation == "linear"

---------------------------------------------------------------------------
(* utils.py: pad_to_aspect_ratio                                           *)

\* int(x) of a finite x: the fraction is dropped, towards zero
IntTrunc(a) == IF a[1] >= 0 THEN a[1] \div a[2] ELSE -((-a[1]) \div a[2])

\* abs(a) < 1e-6 for a finite a = n/d, as n * 10^6 < d without the product
WithinTolerance(a) == Abs(a[1]) <= (a[2] - 1) \div 1000000

\* variant of PadBefore: all of the padding goes in front
PadBeforeAll(extra) == extra

\* pad = (new - old) // 2, the cells added in front
PadBefore(extra) == extra \div 2

\* np.pad(image, ((top, bottom), (left, right)), constant_values=v)
NpPad(image, top, bottom, left, right, v) ==
    LET H == image.shape[1]
        W == image.shape[2]
        H2 == H + top + bottom
        W2 == W + left + right
        Cell(i, j) ==
            IF i >= top /\ i < top + H /\ j >= left /\ j < left + W
            THEN image.data[(i - top) * W + (j - left) + 1]
            ELSE v
    IN  NdArray(<<H2, W2>>, [n \in 1..(H2 * W2) |-> Cell((n - 1) \div W2, (n - 1) % W2)])

\* np.pad raises ValueError on a negative pad width
PadOrRaise(image, top, bottom, left, right, v, step) ==
    IF top < 0 \/ bottom < 0 \/ left < 0 \/ right < 0
    THEN Raised("ValueError", <<step>>)
    ELSE Returned(NpPad(image, top, bottom, left, right, v), <<step>>)

pad_to_aspect_ratio(image, target_ratio, pad_value) ==
    IF ~IsNdArray(image) THEN Raised("AttributeError", << >>)
    ELSE IF Len(image.shape) # 2 THEN Raised("ValueError", <<"unpack">>)
    ELSE IF image.shape[1] = 0 THEN Raised("ZeroDivisionError", <<"current">>)
    ELSE LET h == image.shape[1]
             w == image.shape[2]
             current == FDiv(R(w), R(h))
         IN  IF WithinTolerance(FSub(current, target_ratio))
             THEN Returned(image, <<"same">>)
             ELSE IF FLt(current, target_ratio)
             THEN LET new_w == IntTrunc(FMul(target_ratio, R(h)))
                      pad == PadBefore(new_w - w)
                  IN  PadOrRaise(image, 0, 0, pad, new_w - w - pad, pad_value, "width")
             ELSE IF target_ratio = Zero
             THEN Raised("ZeroDivisionError", <<"height">>)
             ELSE LET new_h == IntTrunc(FDiv(R(w), target_ratio))
                      pad == PadBefore(new_h - h)
                  IN  PadOrRaise(image, pad, new_h - h - pad, 0, 0, pad_value, "height")

DefaultPadValue == Zero

---------------------------------------------------------------------------
(* evaluation.py: global_metrics, patch_metrics                            *)

\* mask = compute_valid_mask(gt) when mask is None
MetricMask(g, m) ==
    IF m.kind = "None" THEN compute_valid_mask(g, DefaultInvalidVal)
    ELSE Returned(m, << >>)

global_metrics(g, p, m) ==
    LET mo == MetricMask(g, m)
        a == abs_rel(g, p, mo.value)
        d == threshold_accuracy(g, p, Delta1Threshold, mo.value)
        r == rmse(g, p, mo.value)
    IN  IF mo.status # "ok" THEN Raised(mo.status, <<"mask">>)
        ELSE IF a.status # "ok" THEN Raised(a.status, <<"mask", "abs_rel">>)
        ELSE IF d.status # "ok"
        THEN Raised(d.status, <<"mask", "abs_rel", "threshold_accuracy">>)
        ELSE IF r.status # "ok"
        THEN Raised(r.status, <<"mask", "abs_rel", "threshold_accuracy", "rmse">>)
        ELSE Returned([AbsRel |-> a.value, delta1 |-> d.value, RMSE |-> r.value],
                      <<"mask", "abs_rel", "threshold_accuracy", "rmse">>)

Min(a, b) == IF a < b THEN a ELSE b
Max(a, b) == IF a > b THEN a ELSE b

\* variant of RangeFrom0: only the whole steps, the partial last one is dropped
RangeWholeSteps(stop, step) ==
    IF step <= 0 \/ stop <= 0 THEN << >>
    ELSE [k \in 1..(stop \div step) |-> (k - 1) * step]

\* list(range(0, stop, step)) for step > 0; the empty list for step < 0
RangeFrom0(stop, step) ==
    IF step <= 0 \/ stop <= 0 THEN << >>
    ELSE [k \in 1..(((stop - 1) \div step) + 1) |-> (k - 1) * step]

\* a[y0:y1, x0:x1] of a 2-D array: the slice is clipped to the array
Slice2(a, y0, y1, x0, x1) ==
    LET H == a.shape[1]
        W == a.shape[2]
        ya == Min(y0, H)
        yb == Max(Min(y1, H), ya)
        xa == Min(x0, W)
        xb == Max(Min(x1, W), xa)
        h == yb - ya
        w == xb - xa
    IN  NdArray(<<h, w>>,
                [k \in 1..(h * w) |->
                    a.data[(ya + ((k - 1) \div w)) * W + xa + ((k - 1) % w) + 1]])

\* variant of AnyTrue: every patch passes the test
AnyTrueAlways(m) == TRUE

\* np.any
AnyTrue(m) == \E i \in 1..Len(m.data) : m.data[i]

\* variant of PatchCorners: the loops nested the other way, columns outermost
PatchCornersColumnMajor(H, W, ph, pw) ==
    LET ys == RangeFrom0(H, ph)
        xs == RangeFrom0(W, pw)
        ny == Len(ys)
    IN  [k \in 1..(ny * Len(xs)) |->
            <<ys[((k - 1) % ny) + 1], xs[((k - 1) \div ny) + 1]>>]

\* the (y0, x0) corners the two nested loops visit, in the order visited
PatchCorners(H, W, ph, pw) ==
    LET ys == RangeFrom0(H, ph)
        xs == RangeFrom0(W, pw)
        nx == Len(xs)
    IN  [k \in 1..(Len(ys) * nx) |->
            <<ys[((k - 1) \div nx) + 1], xs[((k - 1) % nx) + 1]>>]

\* the body of the inner loop at corner c: the record appended, if any
PatchRecord(g, p, m, ph, pw, c) ==
    LET y0 == c[1]
        x0 == c[2]
        y1 == Min(y0 + ph, g.shape[1])
        x1 == Min(x0 + pw, g.shape[2])
        sub_mask == Slice2(m, y0, y1, x0, x1)
        sub_gt == Slice2(g, y0, y1, x0, x1)
        sub_pred == Slice2(p, y0, y1, x0, x1)
        a == abs_rel(sub_gt, sub_pred, sub_mask)
        d == threshold_accuracy(sub_gt, sub_pred, Delta1Threshold, sub_mask)
        r == rmse(sub_gt, sub_pred, sub_mask)
    IN  IF ~AnyTrue(sub_mask) THEN Returned(<< >>, << >>)
        ELSE IF a.status # "ok" THEN Raised(a.status, << >>)
        ELSE IF d.status # "ok" THEN Raised(d.status, << >>)
        ELSE IF r.status # "ok" THEN Raised(r.status, << >>)
        ELSE Returned(<<[y0 |-> y0, y1 |-> y1, x0 |-> x0, x1 |-> x1,
                         AbsRel |-> a.value, delta1 |-> d.value, RMSE |-> r.value]>>,
                      << >>)

\* the loops from corner k on: the records in order, or the first error
RECURSIVE PatchLoop(_, _, _, _, _, _, _)
PatchLoop(g, p, m, ph, pw, cs, k) ==
    IF k > Len(cs) THEN Returned(<< >>, <<"mask", "loop">>)
    ELSE LET rec == PatchRecord(g, p, m, ph, pw, cs[k])
             rest == PatchLoop(g, p, m, ph, pw, cs, k + 1)
         IN  IF rec.status # "ok" THEN Raised(rec.status, <<"mask", "loop">>)
             ELSE IF rest.status # "ok" THEN rest
             ELSE Returned(rec.value \o rest.value, <<"mask", "loop">>)

patch_metrics(g, p, ps, m) ==
    LET mo == MetricMask(g, m)
    IN  IF mo.status # "ok" THEN Raised(mo.status, <<"mask">>)
        \* H, W = gt.shape; ph, pw = patch_size
        ELSE IF Len(g.shape) # 2 \/ Len(ps) # 2 THEN Raised("ValueError", <<"mask">>)
        \* range(0, H, 0) raises; range(0, W, 0) is reached only inside the outer loop
        ELSE IF ps[1] = 0 THEN Raised("ValueError", <<"mask">>)
        ELSE IF ps[2] = 0 /\ RangeFrom0(g.shape[1], ps[1]) # << >>
        THEN Raised("ValueError", <<"mask", "loop">>)
        ELSE IF Len(mo.value.shape) # 2 \/ Len(p.shape) # 2
        THEN (IF RangeFrom0(g.shape[1], ps[1]) = << >> \/ RangeFrom0(g.shape[2], ps[2]) = << >>
              THEN Returned(<< >>, <<"mask", "loop">>)
              ELSE Raised("IndexError", <<"mask", "loop">>))
        ELSE PatchLoop(g, p, mo.value, ps[1], ps[2],
                       PatchCorners(g.shape[1], g.shape[2], ps[1], ps[2]), 1)

---------------------------------------------------------------------------
(* Input domains.                                                          *)

\* the depth values drawn for an input pixel: a negative and a zero sentinel,
\* and two valid depths whose ratio 5/4 is exactly the delta-1 threshold
Vals == {R(-1), R(0), R(4), R(5)}

SeqsOf(S, n) == [1..n -> S]

\* 1-D float arrays of n elements
Arr1(n) == {NdArray(<<n>>, d) : d \in SeqsOf(Vals, n)}

\* boolean arrays of a shape
BoolArr(sh) == {NdArray(sh, d) : d \in SeqsOf(BOOLEAN, Prod(sh))}

AllTrue(sh) == NdArray(sh, [i \in 1..Prod(sh) |-> TRUE])

NoPatch == << >>

\* an image filled by repeating a short sequence of values
Tiled(sh, pal) == NdArray(sh, [i \in 1..Prod(sh) |-> pal[((i - 1) % Len(pal)) + 1]])

GtPalettes == {<<R(4), R(5), R(0)>>, <<R(5), R(-1), R(4)>>, <<R(4), R(4), R(5)>>}
PredPalettes == {<<R(5), R(4), R(4)>>, <<R(0), R(5), R(-1)>>}

\* a call with no argument beside gt, pred, mask and patch_size
NoKwargs == << >>

\* the evaluator of evaluation.py with its default strategies
DefaultEvaluator ==
    [resize_fn |-> "resize_depth_map",
     align_fn |-> "scale_and_shift_align",
     valid_mask_fn |-> "compute_valid_mask"]

\* the variables a specification does not use keep these values
Idle ==
    /\ patch_size = NoPatch
    /\ kwargs = NoKwargs
    /\ self = DefaultEvaluator
    /\ pred_resized = NoneVal
    /\ ev_mask = NoneVal
    /\ pred_prep = NoneVal
    /\ results = << >>
    /\ calls = << >>
    /\ reused = FALSE

IdleUnchanged ==
    UNCHANGED <<patch_size, kwargs, self, pred_resized, ev_mask, pred_prep, results,
                calls, reused>>

---------------------------------------------------------------------------
(* SpecMetric: a caller invokes one of abs_rel, threshold_accuracy, rmse   *)
(* on arguments of any type and shape.                                     *)

\* same-shape arrays with every mask of that shape, or none
MetricCongruent ==
    UNION {Arr1(n) \X Arr1(n) \X ({NoneVal} \cup BoolArr(<<n>>)) : n \in 0..MaxLen}

\* pred of another shape than gt: one more element, or a leading axis added
MetricMismatched ==
    UNION {{<<g, p, m>> : g \in Arr1(n),
                          p \in {NdArray(<<n + 1>>, [i \in 1..(n + 1) |-> One]),
                                 NdArray(<<1, n>>, [i \in 1..n |-> One])},
                          m \in {NoneVal, AllTrue(<<n>>)}} : n \in 0..MaxLen}

\* gt or pred (or both) a plain list, of equal or of different lengths
MetricUntyped ==
    UNION {UNION {{c \in {PyList(a.data), a}
                         \X {PyList(a.data), PyList(a.data \o <<One>>), a,
                             NdArray(<<n + 1>>, a.data \o <<One>>)}
                         \X {NoneVal} :
                      ~(IsNdArray(c[1]) /\ IsNdArray(c[2]))} : a \in Arr1(n)}
           : n \in 0..MaxLen}

MetricInputs == MetricCongruent \cup MetricMismatched \cup MetricUntyped

InitMetric ==
    /\ pc = "start"
    /\ fn = "none"
    /\ \E c \in MetricInputs : gt = c[1] /\ pred = c[2] /\ mask = c[3]
    /\ ret = NoRet
    /\ Idle

CallAbsRel ==
    /\ pc = "start"
    /\ pc' = "called"
    /\ fn' = "abs_rel"
    /\ ret' = abs_rel(gt, pred, mask)
    /\ UNCHANGED <<gt, pred, mask>>
    /\ IdleUnchanged

CallThresholdAccuracy ==
    /\ pc = "start"
    /\ pc' = "called"
    /\ fn' = "threshold_accuracy"
    /\ ret' = threshold_accuracy(gt, pred, Delta1Threshold, mask)
    /\ UNCHANGED <<gt, pred, mask>>
    /\ IdleUnchanged

Thresholds == {R(1), R(2)}

\* threshold_accuracy(gt, pred, threshold=t, mask=mask)
CallThresholdAccuracyAt ==
    /\ pc = "start"
    /\ pc' = "called"
    /\ fn' = "threshold_accuracy"
    /\ \E t \in Thresholds :
          /\ kwargs' = [threshold |-> t]
          /\ ret' = threshold_accuracy(gt, pred, t, mask)
    /\ UNCHANGED <<gt, pred, mask>>
    /\ UNCHANGED <<patch_size, self, pred_resized, ev_mask, pred_prep, results, calls,
                    reused>>

CallRmse ==
    /\ pc = "start"
    /\ pc' = "called"
    /\ fn' = "rmse"
    /\ ret' = rmse(gt, pred, mask)
    /\ UNCHANGED <<gt, pred, mask>>
    /\ IdleUnchanged

CallGlobalMetrics ==
    /\ pc = "start"
    /\ pc' = "called"
    /\ fn' = "global_metrics"
    /\ ret' = global_metrics(gt, pred, mask)
    /\ UNCHANGED <<gt, pred, mask>>
    /\ IdleUnchanged

CallAlign ==
    /\ pc = "start"
    /\ pc' = "called"
    /\ fn' = "scale_and_shift_align"
    /\ ret' = scale_and_shift_align(pred, gt, mask)
    /\ UNCHANGED <<gt, pred, mask>>
    /\ IdleUnchanged

NextMetric ==
    \/ CallAbsRel
    \/ CallThresholdAccuracy
    \/ CallThresholdAccuracyAt
    \/ CallRmse
    \/ CallGlobalMetrics
    \/ CallAlign

SpecMetric == InitMetric /\ [][NextMetric]_vars

MetricFns == {"abs_rel", "threshold_accuracy", "rmse"}

\* the number of elements a metric includes: all of them, or the masked ones
IncludedCount(g, m) ==
    IF m.kind = "None" THEN Len(g.data) ELSE Len(BoolIndex(g, m))

---------------------------------------------------------------------------
(* C7.  Shape mismatch law: abs_rel, threshold_accuracy, rmse and           *)
(* scale_and_shift_align, called with gt and pred arrays of different       *)
(* shapes, raise ValueError before any masking, fitting or arithmetic step  *)
(* has run, and return no value.                                            *)
ShapeMismatchRaises ==
    (/\ pc = "called"
     /\ fn \in MetricFns \cup {"scale_and_shift_align"}
     /\ IsNdArray(gt) /\ IsNdArray(pred)
     /\ gt.shape # pred.shape)
    => (/\ ret.status = "ValueError"
        /\ ret.value = << >>
        /\ \A i \in 1..Len(ret.steps) :
              ret.steps[i] \notin {"mask", "arith", "lstsq", "apply"})

ShapeMismatchWitness ==
    /\ pc = "called"
    /\ fn = "scale_and_shift_align"
    /\ IsNdArray(gt) /\ IsNdArray(pred)
    /\ gt.shape = <<2>> /\ pred.shape = <<1, 2>>
    /\ mask # NoneVal
    /\ ret.status = "ValueError"

---------------------------------------------------------------------------
(* C8.  abs_rel, threshold_accuracy and rmse raise TypeError whenever gt or *)
(* pred is not an ndarray, whatever the lengths of the two inputs: the type *)
(* check comes before the shape check.                                      *)
NonArrayRaisesTypeError ==
    (/\ pc = "called"
     /\ fn \in MetricFns
     /\ (~IsNdArray(gt) \/ ~IsNdArray(pred)))
    => (ret.status = "TypeError" /\ ret.steps = <<"validate">>)

NonArrayWitness ==
    /\ pc = "called"
    /\ fn = "rmse"
    /\ IsNdArray(gt) /\ ~IsNdArray(pred)
    /\ Len(gt.data) # Len(pred.data)
    /\ ret.status = "TypeError"

---------------------------------------------------------------------------
(* C9.  With no included element (an all-False mask, or empty arrays)       *)
(* abs_rel, threshold_accuracy and rmse return NaN and do not raise; and    *)
(* global_metrics with the mask omitted, on a ground truth without a pixel  *)
(* > 0, returns NaN for AbsRel, delta1 and RMSE.                            *)
EmptyIncludedSetGivesNaN ==
    /\ (/\ pc = "called"
        /\ fn \in MetricFns
        /\ IsNdArray(gt) /\ IsNdArray(pred) /\ gt.shape = pred.shape
        /\ (mask.kind = "None" \/ CanIndex(gt, mask))
        /\ IncludedCount(gt, mask) = 0)
       => (ret.status = "ok" /\ ret.value = NaN)
    /\ (/\ pc = "called"
        /\ fn = "global_metrics"
        /\ IsNdArray(gt) /\ IsNdArray(pred) /\ gt.shape = pred.shape
        /\ mask.kind = "None"
        /\ \A i \in 1..Len(gt.data) : ~FGt(gt.data[i], Zero))
       => (/\ ret.status = "ok"
           /\ ret.value.AbsRel = NaN
           /\ ret.value.delta1 = NaN
           /\ ret.value.RMSE = NaN)

EmptyIncludedSetWitness ==
    /\ pc = "called"
    /\ fn = "global_metrics"
    /\ mask.kind = "None"
    /\ IsNdArray(gt) /\ IsNdArray(pred) /\ gt.shape = pred.shape
    /\ Len(gt.data) = 2
    /\ \A i \in 1..Len(gt.data) : ~FGt(gt.data[i], Zero)
    /\ ret.status = "ok"
    /\ ret.value.RMSE = NaN

---------------------------------------------------------------------------
(* SpecAlign: a caller invokes scale_and_shift_align(pred, gt, mask).      *)

\* the scales and shifts of the affine images alpha * pred + beta drawn for gt
Alphas == {R(-1), <<1, 2>>, R(2)}
Betas == {R(-1), R(0), R(5)}

\* the test input gt = alpha * pred + beta
AffineImage(a, b, p) ==
    NdArray(p.shape, [i \in 1..Len(p.data) |-> FAdd(FMul(a, p.data[i]), b)])

\* gt = alpha * pred + beta, mask omitted
AlignAffine ==
    UNION {{<<AffineImage(a, b, p), p, NoneVal>> :
               p \in Arr1(n), a \in Alphas, b \in Betas} : n \in 0..MaxFit}

\* gt and pred unrelated, every mask or none
AlignFree == MetricCongruent

\* a few longer pairs under every explicit mask
AlignMasked ==
    {Tiled(<<MaxFit>>, gp) : gp \in GtPalettes}
    \X {Tiled(<<MaxFit>>, pp) : pp \in PredPalettes} \X BoolArr(<<MaxFit>>)

InitAlign ==
    /\ pc = "start"
    /\ fn = "none"
    /\ \E c \in AlignAffine \cup AlignFree \cup AlignMasked :
          gt = c[1] /\ pred = c[2] /\ mask = c[3]
    /\ ret = NoRet
    /\ Idle

NextAlign == CallAlign

SpecAlign == InitAlign /\ [][NextAlign]_vars

\* gt is alpha * pred + beta for a scale alpha # 0 and a shift beta
IsAffineImage(g, p) ==
    \E a \in Alphas, b \in Betas : g = AffineImage(a, b, p)

\* the pred values of the pixels the fit uses
FittedPreds(p, g, m) ==
    {BoolIndex(p, AlignMask(g, m))[i] : i \in 1..Len(BoolIndex(p, AlignMask(g, m)))}

AlignCalled ==
    /\ pc = "called"
    /\ fn = "scale_and_shift_align"
    /\ IsNdArray(gt) /\ IsNdArray(pred) /\ gt.shape = pred.shape

---------------------------------------------------------------------------
(* C3 as stated.  Affine-recovery law: for any pred, alpha # 0 and beta,    *)
(* scale_and_shift_align(pred, alpha * pred + beta) without a mask returns  *)
(* alpha * pred + beta at every pixel.                                      *)
AffineRecoveryAnyPred ==
    (AlignCalled /\ mask.kind = "None" /\ IsAffineImage(gt, pred))
    => (ret.status = "ok" /\ ret.value = gt)

(* C3 as amended.  The law holds whenever the fit is well-determined: at    *)
(* least two of the pixels with alpha * pred + beta > 0, the ones the       *)
(* default mask keeps, carry different pred values.                         *)
AffineRecoveryWellDetermined ==
    (/\ AlignCalled /\ mask.kind = "None" /\ IsAffineImage(gt, pred)
     /\ Cardinality(FittedPreds(pred, gt, mask)) >= 2)
    => (ret.status = "ok" /\ ret.value = gt)

AffineRecoveryWitness ==
    /\ AlignCalled /\ mask.kind = "None"
    /\ gt = AffineImage(R(2), R(5), pred)
    /\ Len(pred.data) = 3
    /\ Cardinality(FittedPreds(pred, gt, mask)) = 3
    /\ Cardinality({i \in 1..3 : FGt(gt.data[i], Zero)}) = 3
    /\ ret.status = "ok" /\ ret.value = gt

---------------------------------------------------------------------------
(* C10.  Degenerate fit: when the mask passed to, or defaulted in,          *)
(* scale_and_shift_align selects no pixel or exactly one pixel, the call    *)
(* returns alpha * pred + beta in pred's shape for the minimum-norm least-  *)
(* squares (alpha, beta): (0, 0) for no pixel; for one pixel (x, y) the     *)
(* pair with alpha * x + beta = y whose alpha^2 + beta^2 no other pair on   *)
(* that line undercuts.                                                     *)

\* the slopes a of the competing solutions (a, y - a * x)
CandidateSlopes == {<<k, 4>> : k \in -12..12} \cup {<<k, 17>> : k \in -20..20}

Norm2(a, b) == FAdd(FMul(a, a), FMul(b, b))

FLe(a, b) == a = b \/ FLt(a, b)

DegenerateFitMinimumNorm ==
    (/\ AlignCalled
     /\ CanIndex(pred, AlignMask(gt, mask))
     /\ IncludedCount(pred, AlignMask(gt, mask)) <= 1)
    => LET ab == AlignParams(pred, gt, mask)
           xs == BoolIndex(pred, AlignMask(gt, mask))
           ys == BoolIndex(gt, AlignMask(gt, mask))
       IN  /\ ret.status = "ok"
           /\ ret.value.shape = pred.shape
           /\ ret.value = ApplyAffine(ab, pred)
           /\ Len(xs) = 0 => ab = <<Zero, Zero>>
           /\ Len(xs) = 1 =>
                 /\ FAdd(FMul(ab[1], xs[1]), ab[2]) = ys[1]
                 /\ \A a \in CandidateSlopes :
                       FLe(Norm2(ab[1], ab[2]),
                           Norm2(a, FSub(ys[1], FMul(a, xs[1]))))

DegenerateFitWitness ==
    /\ AlignCalled
    /\ mask.kind = "ndarray"
    /\ IncludedCount(pred, mask) = 1
    /\ Len(pred.data) = 2
    /\ pred.data[1] # pred.data[2]
    /\ BoolIndex(pred, mask) = <<R(4)>>
    /\ BoolIndex(gt, mask) = <<R(5)>>
    /\ ret.status = "ok"
    /\ ret.value.data # gt.data

---------------------------------------------------------------------------
(* SpecPatch: a caller invokes global_metrics or patch_metrics on an image. *)

ImgShapes(n) == {sh \in (1..n) \X (1..n) : sh[1] * sh[2] <= n}

Img(sh) == {NdArray(sh, d) : d \in SeqsOf(Vals, Prod(sh))}

\* the data of an image in reverse order
Reversed(a) ==
    NdArray(a.shape, [i \in 1..Len(a.data) |-> a.data[Len(a.data) + 1 - i]])

\* every image, with itself or its reverse as the prediction, the mask omitted
PatchDefaultMask ==
    UNION {UNION {{<<g, g, NoneVal>>, <<g, Reversed(g), NoneVal>>} : g \in Img(sh)}
           : sh \in ImgShapes(MaxPix)}

\* a few image pairs under every explicit mask
PatchExplicitMask ==
    UNION {{Tiled(sh, gp) : gp \in GtPalettes} \X {Tiled(sh, pp) : pp \in PredPalettes}
           \X BoolArr(sh) : sh \in ImgShapes(MaxPix)}

\* gt = np.arange(H * W, dtype=float).reshape(H, W) with H, W = 4, 4
Ramp == NdArray(<<4, 4>>, [i \in 1..16 |-> R(i - 1)])

PatchRamp == {<<Ramp, Ramp, NoneVal>>}

PatchSizes == (-1..MaxPatch) \X (-1..MaxPatch)

InitPatch ==
    /\ pc = "start"
    /\ fn = "none"
    /\ \E c \in PatchDefaultMask \cup PatchExplicitMask \cup PatchRamp :
          gt = c[1] /\ pred = c[2] /\ mask = c[3]
    /\ ret = NoRet
    /\ Idle

CallPatchMetricsWith(sizes) ==
    /\ pc = "start"
    /\ pc' = "called"
    /\ fn' = "patch_metrics"
    /\ \E ps \in sizes :
          /\ patch_size' = ps
          /\ ret' = patch_metrics(gt, pred, ps, mask)
    /\ UNCHANGED <<gt, pred, mask>>
    /\ UNCHANGED <<kwargs, self, pred_resized, ev_mask, pred_prep, results, calls,
                    reused>>

CallPatchMetrics == CallPatchMetricsWith(PatchSizes)

NextPatch == CallGlobalMetrics \/ CallPatchMetrics

SpecPatch == InitPatch /\ [][NextPatch]_vars

\* the mask the metrics of evaluation.py use: the argument, or gt > 0
EffectiveMask(g, m) == MetricMask(g, m).value

\* the pixels (y, x) of a rectangle, and of the image
RectPixels(r) == (r.y0 .. (r.y1 - 1)) \X (r.x0 .. (r.x1 - 1))
ImagePixels(g) == (0 .. (g.shape[1] - 1)) \X (0 .. (g.shape[2] - 1))
ValidPixels(g, m) ==
    {px \in ImagePixels(g) : EffectiveMask(g, m).data[px[1] * g.shape[2] + px[2] + 1]}

\* the rectangles of the patch grid of an H x W image: by row and column index
CeilDiv(a, b) == (a + b - 1) \div b
GridRects(H, W, ph, pw) ==
    {[y0 |-> i * ph, y1 |-> Min((i + 1) * ph, H),
      x0 |-> j * pw, x1 |-> Min((j + 1) * pw, W)] :
        i \in 0..(CeilDiv(H, ph) - 1), j \in 0..(CeilDiv(W, pw) - 1)}

RectOf(rec) == [y0 |-> rec.y0, y1 |-> rec.y1, x0 |-> rec.x0, x1 |-> rec.x1]

PatchCalled ==
    /\ pc = "called"
    /\ fn = "patch_metrics"
    /\ IsNdArray(gt) /\ IsNdArray(pred) /\ gt.shape = pred.shape
    /\ Len(gt.shape) = 2

\* pairwise disjoint rectangles in row-major order, none larger than the patch
\* size and none smaller except in the final row or column
RectsWellFormed(recs, H, W, ph, pw) ==
    /\ \A i, j \in 1..Len(recs) :
          i < j => /\ RectPixels(recs[i]) \cap RectPixels(recs[j]) = {}
                   /\ \/ recs[i].y0 < recs[j].y0
                      \/ recs[i].y0 = recs[j].y0 /\ recs[i].x0 < recs[j].x0
    /\ \A i \in 1..Len(recs) :
          /\ recs[i].y1 - recs[i].y0 <= ph
          /\ recs[i].x1 - recs[i].x0 <= pw
          /\ recs[i].y1 - recs[i].y0 = ph \/ recs[i].y1 = H
          /\ recs[i].x1 - recs[i].x0 = pw \/ recs[i].x1 = W
          /\ recs[i].y0 < recs[i].y1 /\ recs[i].x0 < recs[i].x1

Covered(recs) == UNION {RectPixels(recs[i]) : i \in 1..Len(recs)}

---------------------------------------------------------------------------
(* C6 as stated.  Patch coverage law: for any H x W image and patch size,   *)
(* the rectangles of the records patch_metrics emits exactly tile the image *)
(* (pairwise disjoint, union the whole image) in row-major order, each at   *)
(* most ph x pw and exactly that except in the final row or column.         *)
(* Stated for the patch sizes ph, pw >= 1, which iterate at all.            *)
PatchesTileImage ==
    (PatchCalled /\ patch_size[1] >= 1 /\ patch_size[2] >= 1 /\ ret.status = "ok")
    => /\ RectsWellFormed(ret.value, gt.shape[1], gt.shape[2],
                          patch_size[1], patch_size[2])
       /\ Covered(ret.value) = ImagePixels(gt)

(* C6 as amended.  For ph, pw >= 1 the emitted rectangles are pairwise      *)
(* disjoint, in row-major order, at most ph x pw and exactly that except in *)
(* the final row or column, and their union holds every valid pixel; it is  *)
(* the whole image when every patch of the grid holds a valid pixel.        *)
PatchesTileValidPixels ==
    (PatchCalled /\ patch_size[1] >= 1 /\ patch_size[2] >= 1)
    => /\ ret.status = "ok"
       /\ RectsWellFormed(ret.value, gt.shape[1], gt.shape[2],
                          patch_size[1], patch_size[2])
       /\ ValidPixels(gt, mask) \subseteq Covered(ret.value)
       /\ Covered(ret.value) \subseteq ImagePixels(gt)
       /\ (\A r \in GridRects(gt.shape[1], gt.shape[2], patch_size[1], patch_size[2]) :
              RectPixels(r) \cap ValidPixels(gt, mask) # {})
          => Covered(ret.value) = ImagePixels(gt)

PatchesTileWitness ==
    /\ PatchCalled
    /\ gt.shape = <<3, 1>> /\ patch_size = <<2, 1>>
    /\ ret.status = "ok"
    /\ Len(ret.value) = 2
    /\ RectOf(ret.value[1]) = [y0 |-> 0, y1 |-> 2, x0 |-> 0, x1 |-> 1]
    /\ RectOf(ret.value[2]) = [y0 |-> 2, y1 |-> 3, x0 |-> 0, x1 |-> 1]
    /\ Covered(ret.value) = ImagePixels(gt)

---------------------------------------------------------------------------
(* C4 as stated.  Identity law: for any depth map D, global_metrics(D, D)   *)
(* with the mask omitted yields AbsRel = 0, delta1 = 1, RMSE = 0, and       *)
(* patch_metrics(D, D, patch_size) yields them in every emitted record.     *)
IsIdentityResult(v) == v.AbsRel = Zero /\ v.delta1 = One /\ v.RMSE = Zero

IdentityCall ==
    /\ pc = "called"
    /\ IsNdArray(gt) /\ pred = gt /\ mask.kind = "None"

IdentityLawAnyMap ==
    /\ (IdentityCall /\ fn = "global_metrics")
       => (ret.status = "ok" /\ IsIdentityResult(ret.value))
    /\ (IdentityCall /\ fn = "patch_metrics" /\ ret.status = "ok")
       => \A i \in 1..Len(ret.value) : IsIdentityResult(ret.value[i])

(* C4 as amended.  The global part holds for every depth map D with at      *)
(* least one pixel > 0; the patch part holds for every D.                   *)
IdentityLawValidMap ==
    /\ (/\ IdentityCall /\ fn = "global_metrics"
        /\ \E i \in 1..Len(gt.data) : FGt(gt.data[i], Zero))
       => (ret.status = "ok" /\ IsIdentityResult(ret.value))
    /\ (IdentityCall /\ fn = "patch_metrics" /\ ret.status = "ok")
       => \A i \in 1..Len(ret.value) : IsIdentityResult(ret.value[i])

IdentityLawWitness ==
    /\ IdentityCall /\ fn = "patch_metrics"
    /\ gt.shape = <<2, 2>> /\ patch_size = <<1, 1>>
    /\ gt.data[1] = R(0) /\ gt.data[2] = R(4) /\ gt.data[3] = R(-1) /\ gt.data[4] = R(5)
    /\ ret.status = "ok"
    /\ Len(ret.value) = 2
    /\ IsIdentityResult(ret.value[2])

---------------------------------------------------------------------------
(* SpecMask: a caller invokes a metric, global_metrics or patch_metrics     *)
(* with an explicit mask, on every pair of small images.                    *)

\* the values drawn for a pixel here: the zero sentinel and two valid depths
MaskVals == {R(0), R(4), R(5)}

MaskImg(sh) == {NdArray(sh, d) : d \in SeqsOf(MaskVals, Prod(sh))}

MaskInputs ==
    UNION {MaskImg(sh) \X MaskImg(sh) \X BoolArr(sh) : sh \in ImgShapes(MaxLen)}

InitMask ==
    /\ pc = "start"
    /\ fn = "none"
    /\ \E c \in MaskInputs : gt = c[1] /\ pred = c[2] /\ mask = c[3]
    /\ ret = NoRet
    /\ Idle

SquarePatchSizes == {<<k, k>> : k \in 1..MaxPatch}

CallPatchMetricsSquare == CallPatchMetricsWith(SquarePatchSizes)

NextMask ==
    \/ CallAbsRel
    \/ CallThresholdAccuracy
    \/ CallRmse
    \/ CallGlobalMetrics
    \/ CallPatchMetricsSquare

SpecMask == InitMask /\ [][NextMask]_vars

\* the outcome of calling f on (g, p, m), with patch size ps for patch_metrics
CallOf(f, g, p, m, ps) ==
    CASE f = "abs_rel" -> abs_rel(g, p, m)
      [] f = "threshold_accuracy" -> threshold_accuracy(g, p, Delta1Threshold, m)
      [] f = "rmse" -> rmse(g, p, m)
      [] f = "global_metrics" -> global_metrics(g, p, m)
      [] f = "patch_metrics" -> patch_metrics(g, p, ps, m)

\* a with every element that m leaves out replaced by v
Fill(a, m, v) ==
    NdArray(a.shape, [i \in 1..Len(a.data) |-> IF m.data[i] THEN a.data[i] ELSE v])

---------------------------------------------------------------------------
(* C5.  Mask exclusion law: with an explicit boolean mask of the shape of   *)
(* gt and pred, the call returns the result of the run in which every       *)
(* masked-out element of gt and of pred is replaced by one value v, for     *)
(* each v, for abs_rel, threshold_accuracy, rmse, global_metrics and        *)
(* patch_metrics.  Two runs that differ only in masked-out elements have    *)
(* the same such run, so they return identical results; every pair of       *)
(* images of the domain is a state.                                         *)
MaskExclusion ==
    (/\ pc = "called"
     /\ IsNdArray(gt) /\ IsNdArray(pred) /\ IsNdArray(mask)
     /\ gt.shape = pred.shape /\ mask.shape = gt.shape)
    => \A v \in MaskVals :
          CallOf(fn, Fill(gt, mask, v), Fill(pred, mask, v), mask, patch_size) = ret

MaskExclusionWitness ==
    /\ pc = "called"
    /\ fn = "patch_metrics"
    /\ gt.shape = <<1, 2>> /\ patch_size = <<2, 2>>
    /\ mask.data = <<TRUE, FALSE>>
    /\ gt.data = <<R(4), R(0)>> /\ pred.data = <<R(5), R(0)>>
    /\ ret.status = "ok"
    /\ Len(ret.value) = 1
    /\ ret.value[1].AbsRel = <<1, 4>>

---------------------------------------------------------------------------
(* evaluation.py: DepthEvaluator.  A strategy is named; beside the three   *)
(* defaults the evaluator may be built with a resizer that keeps the size   *)
(* of pred, an aligner that returns pred as it is, and a mask function that *)
(* marks every pixel valid.                                                 *)

ApplyResizeFn(f, depth, target_shape) ==
    CASE f = "resize_depth_map" ->
             resize_depth_map(depth, target_shape, DefaultInterpolation)
      [] f = "keep_size" -> Returned(depth, << >>)

ApplyValidMaskFn(f, g) ==
    CASE f = "compute_valid_mask" -> compute_valid_mask(g, DefaultInvalidVal)
      [] f = "all_valid" -> Returned(AllTrue(g.shape), << >>)

ApplyAlignFn(f, p, g, m) ==
    CASE f = "scale_and_shift_align" -> scale_and_shift_align(p, g, m)
      [] f = "no_align" -> Returned(p, << >>)

\* a call of the pipeline: the callee, the arguments passed and the outcome
\* pred_resized = self.resize_fn(pred, gt.shape)
ResizeCall(slf, p, g) ==
    [fn |-> "resize_fn", args |-> <<p, g.shape>>,
     out |-> ApplyResizeFn(slf.resize_fn, p, g.shape)]

\* mask = self.valid_mask_fn(gt)
MaskCall(slf, g) ==
    [fn |-> "valid_mask_fn", args |-> <<g>>,
     out |-> ApplyValidMaskFn(slf.valid_mask_fn, g)]

\* pred_aligned = self.align_fn(pred_resized, gt, mask)
AlignCall(slf, pr, g, m) ==
    [fn |-> "align_fn", args |-> <<pr, g, m>>,
     out |-> ApplyAlignFn(slf.align_fn, pr, g, m)]

\* (variant: the metrics are handed the resized prediction)
GlobalCallResized(g, pp, m) ==
    [fn |-> "global_metrics", args |-> <<g, pred_resized, m>>,
     out |-> global_metrics(g, pred_resized, m)]

\* global_metrics(gt, pred_prep, mask)
GlobalCall(g, pp, m) ==
    [fn |-> "global_metrics", args |-> <<g, pp, m>>,
     out |-> global_metrics(g, pp, m)]

\* patch_metrics(gt, pred_prep, patch_size, mask)
PatchCall(g, pp, ps, m) ==
    [fn |-> "patch_metrics", args |-> <<g, pp, ps, m>>,
     out |-> patch_metrics(g, pp, ps, m)]

\* (variant: the patch breakdown is never added)
WantsPatchesNever(ps) == FALSE

\* if patch_size is not None
WantsPatches(ps) == ps # NoPatch

---------------------------------------------------------------------------
(* SpecEval: one run of DepthEvaluator.evaluate(gt, pred, patch_size),     *)
(* statement by statement.                                                 *)

Evaluators ==
    {DefaultEvaluator,
     [DefaultEvaluator EXCEPT !.resize_fn = "keep_size"],
     [DefaultEvaluator EXCEPT !.align_fn = "no_align"],
     [DefaultEvaluator EXCEPT !.resize_fn = "keep_size", !.align_fn = "no_align"],
     [DefaultEvaluator EXCEPT !.valid_mask_fn = "all_valid"]}

Transposed(a) ==
    LET H == a.shape[1]
        W == a.shape[2]
    IN  NdArray(<<W, H>>,
                [n \in 1..(H * W) |-> a.data[((n - 1) % H) * W + ((n - 1) \div H) + 1]])

\* a ground truth with a prediction of its shape, of the transposed shape
\* or of a single pixel
EvalInputs ==
    UNION {UNION {{<<g, g>>, <<g, Reversed(g)>>, <<g, Transposed(g)>>,
                   <<g, NdArray(<<1, 1>>, <<R(5)>>)>>} : g \in Img(sh)}
           : sh \in ImgShapes(MaxLen)}

EvalPatchSizes == {NoPatch, <<1, 1>>, <<0, 1>>, <<MaxPatch, MaxPatch>>}

InitEval ==
    /\ pc = "start"
    /\ fn = "evaluate"
    /\ \E c \in EvalInputs : gt = c[1] /\ pred = c[2]
    /\ mask = NoneVal
    /\ patch_size \in EvalPatchSizes
    /\ kwargs = NoKwargs
    /\ self \in Evaluators
    /\ ret = NoRet
    /\ pred_resized = NoneVal
    /\ ev_mask = NoneVal
    /\ pred_prep = NoneVal
    /\ results = << >>
    /\ calls = << >>
    /\ reused = FALSE

EvalArgsUnchanged ==
    UNCHANGED <<fn, gt, pred, mask, patch_size, kwargs, self, reused>>

\* pred_resized = self.resize_fn(pred, gt.shape)
EvResize ==
    /\ pc = "start"
    /\ LET c == ResizeCall(self, pred, gt)
       IN  /\ calls' = Append(calls, c)
           /\ IF c.out.status = "ok"
              THEN pc' = "resized" /\ pred_resized' = c.out.value /\ ret' = ret
              ELSE pc' = "raised" /\ pred_resized' = pred_resized /\ ret' = c.out
    /\ UNCHANGED <<ev_mask, pred_prep, results>>
    /\ EvalArgsUnchanged

\* mask = self.valid_mask_fn(gt)
EvMask ==
    /\ pc = "resized"
    /\ LET c == MaskCall(self, gt)
       IN  /\ calls' = Append(calls, c)
           /\ IF c.out.status = "ok"
              THEN pc' = "masked" /\ ev_mask' = c.out.value /\ ret' = ret
              ELSE pc' = "raised" /\ ev_mask' = ev_mask /\ ret' = c.out
    /\ UNCHANGED <<pred_resized, pred_prep, results>>
    /\ EvalArgsUnchanged

\* pred_aligned = self.align_fn(pred_resized, gt, mask); return to evaluate
EvAlign ==
    /\ pc = "masked"
    /\ LET c == AlignCall(self, pred_resized, gt, ev_mask)
       IN  /\ calls' = Append(calls, c)
           /\ IF c.out.status = "ok"
              THEN pc' = "aligned" /\ pred_prep' = c.out.value /\ ret' = ret
              ELSE pc' = "raised" /\ pred_prep' = pred_prep /\ ret' = c.out
    /\ UNCHANGED <<pred_resized, ev_mask, results>>
    /\ EvalArgsUnchanged

\* results = {"global": global_metrics(gt, pred_prep, mask)}
EvGlobal ==
    /\ pc = "aligned"
    /\ LET c == GlobalCall(gt, pred_prep, ev_mask)
       IN  /\ calls' = Append(calls, c)
           /\ IF c.out.status = "ok"
              THEN pc' = "global_done" /\ results' = [global |-> c.out.value]
                   /\ ret' = ret
              ELSE pc' = "raised" /\ results' = results /\ ret' = c.out
    /\ UNCHANGED <<pred_resized, ev_mask, pred_prep>>
    /\ EvalArgsUnchanged

\* if patch_size is not None:
\*     results["patches"] = patch_metrics(gt, pred_prep, patch_size, mask)
EvPatches ==
    /\ pc = "global_done"
    /\ WantsPatches(patch_size)
    /\ LET c == PatchCall(gt, pred_prep, patch_size, ev_mask)
       IN  /\ calls' = Append(calls, c)
           /\ IF c.out.status = "ok"
              THEN /\ pc' = "patches_done"
                   /\ results' = [global |-> results.global, patches |-> c.out.value]
                   /\ ret' = ret
              ELSE pc' = "raised" /\ results' = results /\ ret' = c.out
    /\ UNCHANGED <<pred_resized, ev_mask, pred_prep>>
    /\ EvalArgsUnchanged

\* return results
EvReturn ==
    /\ \/ pc = "global_done" /\ ~WantsPatches(patch_size)
       \/ pc = "patches_done"
    /\ pc' = "returned"
    /\ ret' = Returned(results, << >>)
    /\ UNCHANGED <<pred_resized, ev_mask, pred_prep, results, calls>>
    /\ EvalArgsUnchanged

\* the arguments of a later call on the same evaluator
LaterInputs ==
    UNION {{<<g, Reversed(g)>>, <<g, Transposed(g)>>} :
              g \in {Tiled(sh, <<R(4), R(5), R(0)>>) : sh \in ImgShapes(MaxLen)}}

\* (variant: a call leaves the evaluator with the default strategies)
EvaluatorReset(slf) == DefaultEvaluator

\* the evaluator after a call: evaluate and _prepare assign to no attribute
\* of self, which keeps what __init__ stored
EvaluatorAfter(slf) == slf

\* the caller calls evaluate again on the same evaluator: a new frame, whose
\* locals are unbound
EvAgain ==
    /\ pc \in {"returned", "raised"}
    /\ pc' = "start"
    /\ \E c \in LaterInputs : gt' = c[1] /\ pred' = c[2]
    /\ patch_size' \in EvalPatchSizes
    /\ self' = EvaluatorAfter(self)
    /\ reused' = TRUE
    /\ ret' = NoRet
    /\ pred_resized' = NoneVal
    /\ ev_mask' = NoneVal
    /\ pred_prep' = NoneVal
    /\ results' = << >>
    /\ calls' = << >>
    /\ UNCHANGED <<fn, mask, kwargs>>

NextEval ==
    \/ EvResize
    \/ EvMask
    \/ EvAlign
    \/ EvGlobal
    \/ EvPatches
    \/ EvReturn
    \/ EvAgain

SpecEval == InitEval /\ [][NextEval]_vars

\* the callees of a run that completes, in the order of the code
StageNames ==
    <<"resize_fn", "valid_mask_fn", "align_fn", "global_metrics", "patch_metrics">>

Stages == IF patch_size = NoPatch THEN 4 ELSE 5

---------------------------------------------------------------------------
(* C1.  In every run of evaluate the calls made so far are, in order,       *)
(* resize, valid-mask, align, global metrics and, when patch_size is given, *)
(* patch metrics, none of them twice, and a run that returns has made each  *)
(* of them exactly once (a run in which a stage raises stops there).        *)
(* resize_fn receives the raw pred and gt.shape, valid_mask_fn receives gt  *)
(* only, align_fn receives what resize_fn returned, gt and what             *)
(* valid_mask_fn returned, and global_metrics and patch_metrics receive gt, *)
(* what align_fn returned and that same mask.                               *)
PipelineOrder ==
    LET n == Len(calls)
    IN  /\ n <= Stages
        /\ \A i \in 1..n : calls[i].fn = StageNames[i]
        /\ \A i \in 1..(n - 1) : calls[i].out.status = "ok"
        /\ pc = "returned" => n = Stages /\ calls[n].out.status = "ok"
        /\ pc = "raised" => n >= 1 /\ calls[n].out.status # "ok"
        /\ n >= 1 => calls[1].args = <<pred, gt.shape>>
        /\ n >= 2 => calls[2].args = <<gt>>
        /\ n >= 3 => calls[3].args = <<calls[1].out.value, gt, calls[2].out.value>>
        /\ n >= 4 => calls[4].args = <<gt, calls[3].out.value, calls[2].out.value>>
        /\ n >= 5 => calls[5].args =
                        <<gt, calls[3].out.value, patch_size, calls[2].out.value>>

\* a run with patches whose prediction had to be resized and was changed by
\* the alignment
PipelineOrderWitness ==
    /\ pc = "returned"
    /\ self = DefaultEvaluator
    /\ Len(calls) = 5
    /\ pred.shape # gt.shape
    /\ calls[1].out.value # pred
    /\ calls[3].out.value # calls[1].out.value
    /\ calls[4].args[2] = calls[3].out.value
    /\ calls[5].args[2] = calls[3].out.value

---------------------------------------------------------------------------
(* C2.  Every successful return of evaluate has the key 'global', a record  *)
(* of exactly the three metrics AbsRel, delta1 and RMSE, has the key        *)
(* 'patches' if and only if patch_size was supplied, and has no other key.  *)
ResultKeys ==
    pc = "returned"
    => /\ ret.status = "ok"
       /\ "global" \in DOMAIN ret.value
       /\ DOMAIN ret.value.global = {"AbsRel", "delta1", "RMSE"}
       /\ "patches" \in DOMAIN ret.value <=> patch_size # NoPatch
       /\ DOMAIN ret.value \subseteq {"global", "patches"}

ResultKeysWitness ==
    /\ pc = "returned"
    /\ patch_size = <<1, 1>>
    /\ DOMAIN ret.value = {"global", "patches"}
    /\ Len(ret.value.patches) >= 1

---------------------------------------------------------------------------
(* C11.  patch_metrics emits a record for a patch of the grid if and only   *)
(* if a valid pixel lies inside the patch's rectangle, so a patch without a *)
(* valid pixel leaves no record, and the metrics of an emitted record are   *)
(* those of the valid pixels of its rectangle and of no other pixel.        *)

\* the values of image a at the valid pixels of rectangle r, row by row
RegionVals(a, r, g, m) ==
    LET W == g.shape[2]
        idx == [n \in 1..Len(a.data) |-> <<(n - 1) \div W, (n - 1) % W>>]
        keep == [n \in 1..Len(a.data) |->
                    idx[n] \in RectPixels(r) /\ idx[n] \in ValidPixels(g, m)]
    IN  Select(a.data, keep)

RecordsMatchValidPatches ==
    (PatchCalled /\ patch_size[1] >= 1 /\ patch_size[2] >= 1)
    => /\ ret.status = "ok"
       /\ {RectOf(ret.value[i]) : i \in 1..Len(ret.value)} =
             {r \in GridRects(gt.shape[1], gt.shape[2], patch_size[1], patch_size[2]) :
                 RectPixels(r) \cap ValidPixels(gt, mask) # {}}
       /\ \A i \in 1..Len(ret.value) :
             LET r == RectOf(ret.value[i])
                 gs == RegionVals(gt, r, gt, mask)
                 ps == RegionVals(pred, r, gt, mask)
             IN  /\ gs # << >>
                 /\ ret.value[i].AbsRel = AbsRelOf(gs, ps)
                 /\ ret.value[i].delta1 = ThresholdOf(gs, ps, Delta1Threshold)
                 /\ ret.value[i].RMSE = RmseOf(gs, ps)

\* of two patches the first holds no valid pixel and leaves no record, the
\* second holds a valid and an invalid pixel
RecordsMatchWitness ==
    /\ PatchCalled
    /\ mask.kind = "None"
    /\ gt.shape = <<2, 2>> /\ patch_size = <<1, 2>>
    /\ gt.data = <<R(0), R(-1), R(4), R(0)>>
    /\ pred.data = <<R(0), R(4), R(-1), R(0)>>
    /\ ret.status = "ok"
    /\ Len(ret.value) = 1
    /\ RectOf(ret.value[1]) = [y0 |-> 1, y1 |-> 2, x0 |-> 0, x1 |-> 2]
    /\ ret.value[1].AbsRel = <<5, 4>>

---------------------------------------------------------------------------
(* C12.  For an H x W image and a patch size (ph, pw) with ph, pw >= 1 in   *)
(* which every patch of the grid holds a valid pixel, patch_metrics returns *)
(* exactly ceil(H/ph) * ceil(W/pw) records, in strictly increasing          *)
(* lexicographic order of (y0, x0), with y0 a multiple of ph, x0 a multiple *)
(* of pw, y1 = min(y0 + ph, H) and x1 = min(x0 + pw, W); the 4 x 4 ramp     *)
(* with patch size (2, 2) gives (0,2,0,2), (0,2,2,4), (2,4,0,2), (2,4,2,4). *)
EveryPatchValid ==
    \A r \in GridRects(gt.shape[1], gt.shape[2], patch_size[1], patch_size[2]) :
        RectPixels(r) \cap ValidPixels(gt, mask) # {}

RampRects ==
    <<[y0 |-> 0, y1 |-> 2, x0 |-> 0, x1 |-> 2], [y0 |-> 0, y1 |-> 2, x0 |-> 2, x1 |-> 4],
      [y0 |-> 2, y1 |-> 4, x0 |-> 0, x1 |-> 2], [y0 |-> 2, y1 |-> 4, x0 |-> 2, x1 |-> 4]>>

PatchCountAndOrder ==
    (/\ PatchCalled /\ patch_size[1] >= 1 /\ patch_size[2] >= 1
     /\ EveryPatchValid)
    => LET H == gt.shape[1]
           W == gt.shape[2]
           ph == patch_size[1]
           pw == patch_size[2]
           recs == ret.value
       IN  /\ ret.status = "ok"
           /\ Len(recs) = CeilDiv(H, ph) * CeilDiv(W, pw)
           /\ \A i \in 1..Len(recs) :
                 /\ recs[i].y0 % ph = 0 /\ recs[i].x0 % pw = 0
                 /\ recs[i].y1 = Min(recs[i].y0 + ph, H)
                 /\ recs[i].x1 = Min(recs[i].x0 + pw, W)
           /\ \A i \in 1..(Len(recs) - 1) :
                 \/ recs[i].y0 < recs[i + 1].y0
                 \/ recs[i].y0 = recs[i + 1].y0 /\ recs[i].x0 < recs[i + 1].x0
           /\ (gt = Ramp /\ patch_size = <<2, 2>>)
              => [i \in 1..Len(recs) |-> RectOf(recs[i])] = RampRects

PatchCountWitness ==
    /\ PatchCalled
    /\ gt = Ramp /\ pred = Ramp /\ patch_size = <<2, 2>>
    /\ EveryPatchValid
    /\ ret.status = "ok"
    /\ Len(ret.value) = 4
    /\ RectOf(ret.value[3]) = [y0 |-> 2, y1 |-> 4, x0 |-> 0, x1 |-> 2]

---------------------------------------------------------------------------
(* SpecUtils: a caller invokes compute_valid_mask or resize_depth_map on a  *)
(* depth map, which gt holds.                                               *)

InvalidVals == {R(-1), R(0), R(4)}

\* the shapes asked of the resizer: those of the images, larger and smaller
TargetShapes == ImgShapes(MaxPix)

Interpolations == {"linear", "nearest", "cubic"}

InitUtils ==
    /\ pc = "start"
    /\ fn = "none"
    /\ \/ \E sh \in ImgShapes(MaxPix) : gt \in Img(sh)
       \/ gt = Ramp
    /\ pred = NoneVal
    /\ mask = NoneVal
    /\ ret = NoRet
    /\ Idle

UtilsUnchanged ==
    UNCHANGED <<gt, pred, mask, patch_size, self, pred_resized, ev_mask, pred_prep,
                results, calls, reused>>

\* compute_valid_mask(gt) and compute_valid_mask(gt, invalid_val)
CallComputeValidMask ==
    /\ pc = "start"
    /\ pc' = "called"
    /\ fn' = "compute_valid_mask"
    /\ \/ /\ kwargs' = NoKwargs
          /\ ret' = compute_valid_mask(gt, DefaultInvalidVal)
       \/ \E v \in InvalidVals :
             /\ kwargs' = [invalid_val |-> v]
             /\ ret' = compute_valid_mask(gt, v)
    /\ UtilsUnchanged

\* resize_depth_map(depth, target_shape) and
\* resize_depth_map(depth, target_shape, interpolation)
CallResizeDepthMap ==
    /\ pc = "start"
    /\ pc' = "called"
    /\ fn' = "resize_depth_map"
    /\ \E ts \in TargetShapes :
          \/ /\ kwargs' = [target_shape |-> ts]
             /\ ret' = resize_depth_map(gt, ts, DefaultInterpolation)
          \/ \E ip \in Interpolations :
                /\ kwargs' = [target_shape |-> ts, interpolation |-> ip]
                /\ ret' = resize_depth_map(gt, ts, ip)
    /\ UtilsUnchanged

\* the ratios asked for: reachable ones, ones no whole width or height gives,
\* one within the tolerance of 1, and the ones no image has
TargetRatios ==
    {<<1, 2>>, One, R(2), <<3, 4>>, <<3, 2>>, <<2000001, 2000000>>, Zero, R(-1)}

PadValues == {R(-1)}

\* pad_to_aspect_ratio(image, target_ratio) and
\* pad_to_aspect_ratio(image, target_ratio, pad_value)
CallPadToAspectRatio ==
    /\ pc = "start"
    /\ pc' = "called"
    /\ fn' = "pad_to_aspect_ratio"
    /\ \E t \in TargetRatios :
          \/ /\ kwargs' = [target_ratio |-> t]
             /\ ret' = pad_to_aspect_ratio(gt, t, DefaultPadValue)
          \/ \E v \in PadValues :
                /\ kwargs' = [target_ratio |-> t, pad_value |-> v]
                /\ ret' = pad_to_aspect_ratio(gt, t, v)
    /\ UtilsUnchanged

NextUtils ==
    \/ CallComputeValidMask
    \/ CallResizeDepthMap
    \/ CallPadToAspectRatio

SpecUtils == InitUtils /\ [][NextUtils]_vars

---------------------------------------------------------------------------
(* C13.  compute_valid_mask(gt, invalid_val) returns a boolean grid of the  *)
(* shape of gt whose cell is true if and only if the cell of gt is strictly *)
(* greater than invalid_val, so a pixel equal to invalid_val and every      *)
(* smaller pixel is invalid; invalid_val is 0 when it is not given.         *)
InvalidValOf(kw) == IF kw = NoKwargs THEN Zero ELSE kw.invalid_val

\* a > b for finite rationals, by cross multiplication
RatGreater(a, b) == a[1] * b[2] > b[1] * a[2]

ValidMaskStrict ==
    (pc = "called" /\ fn = "compute_valid_mask")
    => /\ ret.status = "ok"
       /\ ret.value.kind = "ndarray"
       /\ ret.value.shape = gt.shape
       /\ Len(ret.value.data) = Len(gt.data)
       /\ \A i \in 1..Len(gt.data) :
             /\ ret.value.data[i] \in BOOLEAN
             /\ ret.value.data[i] <=> RatGreater(gt.data[i], InvalidValOf(kwargs))

\* a pixel equal to invalid_val and a smaller one are invalid, a larger one valid
ValidMaskWitness ==
    /\ pc = "called" /\ fn = "compute_valid_mask"
    /\ kwargs # NoKwargs
    /\ kwargs.invalid_val = R(4)
    /\ gt.shape = <<1, 3>>
    /\ gt.data = <<R(4), R(0), R(5)>>
    /\ ret.value.data = <<FALSE, FALSE, TRUE>>

---------------------------------------------------------------------------
(* C14.  scale_and_shift_align returns an array of the shape of pred in     *)
(* which every pixel, masked-in or masked-out, is alpha * pred + beta for   *)
(* one pair (alpha, beta), the pair fitted on the masked pixels: the points *)
(* (pred, returned) of all pixels lie on one line, so no masked-out pixel   *)
(* keeps its value or is zeroed unless the line says so.                    *)
OnOneLine(ps, rs) ==
    /\ \A i, j \in 1..Len(ps) : ps[i] = ps[j] => rs[i] = rs[j]
    /\ \A i, j, k \in 1..Len(ps) :
          FMul(FSub(rs[i], rs[j]), FSub(ps[k], ps[j])) =
             FMul(FSub(rs[k], rs[j]), FSub(ps[i], ps[j]))

AlignedEverywhere ==
    (AlignCalled /\ CanIndex(pred, AlignMask(gt, mask)))
    => LET ab == AlignParams(pred, gt, mask)
       IN  /\ ret.status = "ok"
           /\ ret.value.kind = "ndarray"
           /\ ret.value.shape = pred.shape
           /\ Len(ret.value.data) = Len(pred.data)
           /\ \A i \in 1..Len(pred.data) :
                 ret.value.data[i] = FAdd(FMul(ab[1], pred.data[i]), ab[2])
           /\ OnOneLine(pred.data, ret.value.data)

\* the fit on the first two pixels gives (-1, 9), and the masked-out third
\* pixel 4 becomes 5
AlignedEverywhereWitness ==
    /\ AlignCalled
    /\ mask.kind = "ndarray"
    /\ gt.data = <<R(4), R(5), R(0)>>
    /\ pred.data = <<R(5), R(4), R(4)>>
    /\ mask.data = <<TRUE, TRUE, FALSE>>
    /\ ret.status = "ok"
    /\ ret.value.data = <<R(4), R(5), R(5)>>

---------------------------------------------------------------------------
(* C15.  No step of evaluate changes gt, pred or the three strategies of    *)
(* the evaluator, in the first call and in every later call on the same     *)
(* evaluator, and the outcome of a call, the first or a later one, is the   *)
(* outcome the pipeline gives on the arguments of that call alone.          *)

\* the outcome of the pipeline on its arguments, as one expression
EvaluateOutcome(slf, g, p, ps) ==
    LET r == ApplyResizeFn(slf.resize_fn, p, g.shape)
        m == ApplyValidMaskFn(slf.valid_mask_fn, g)
        a == ApplyAlignFn(slf.align_fn, r.value, g, m.value)
        gm == global_metrics(g, a.value, m.value)
        pm == patch_metrics(g, a.value, ps, m.value)
    IN  IF r.status # "ok" THEN [status |-> r.status, value |-> << >>]
        ELSE IF m.status # "ok" THEN [status |-> m.status, value |-> << >>]
        ELSE IF a.status # "ok" THEN [status |-> a.status, value |-> << >>]
        ELSE IF gm.status # "ok" THEN [status |-> gm.status, value |-> << >>]
        ELSE IF ps = NoPatch THEN [status |-> "ok", value |-> [global |-> gm.value]]
        ELSE IF pm.status # "ok" THEN [status |-> pm.status, value |-> << >>]
        ELSE [status |-> "ok", value |-> [global |-> gm.value, patches |-> pm.value]]

OutcomeFromArguments ==
    pc \in {"returned", "raised"}
    => LET o == EvaluateOutcome(self, gt, pred, patch_size)
       IN  /\ ret.status = o.status
           /\ ret.status = "ok" => ret.value = o.value

InputsAndEvaluatorKept ==
    /\ self' = self
    /\ pc' # "start" => (gt' = gt /\ pred' = pred)

NoMutationNoMemory ==
    /\ []OutcomeFromArguments
    /\ [][InputsAndEvaluatorKept]_vars

\* a later call, on an evaluator built with another resizer, has returned
NoMutationWitness ==
    /\ pc = "returned"
    /\ reused
    /\ self.resize_fn = "keep_size"
    /\ patch_size = <<1, 1>>
    /\ gt.shape = <<1, 2>> /\ pred = Reversed(gt)
    /\ ret.status = "ok"
    /\ Len(ret.value.patches) = 2

---------------------------------------------------------------------------
(* C16.  abs_rel returns the mean of |gt - pred| / gt and rmse returns      *)
(* sqrt(mean((gt - pred)^2)) over exactly the included elements: all of     *)
(* them when the mask is omitted, those where the mask is true otherwise;   *)
(* the masked result is the unmasked function applied to gt[mask] and       *)
(* pred[mask].                                                              *)

\* element i is included
Included(m, i) == m.kind = "None" \/ m.data[i]

\* the sum of the terms of the included elements among the first k
RECURSIVE IncludedSum(_, _, _, _, _)
IncludedSum(f, g, p, m, k) ==
    IF k = 0 THEN Zero
    ELSE IF ~Included(m, k) THEN IncludedSum(f, g, p, m, k - 1)
    ELSE FAdd(IncludedSum(f, g, p, m, k - 1),
              IF f = "abs_rel"
              THEN FDiv(FAbs(FSub(g.data[k], p.data[k])), g.data[k])
              ELSE FMul(FSub(g.data[k], p.data[k]), FSub(g.data[k], p.data[k])))

IncludedMean(f, g, p, m) ==
    FDiv(IncludedSum(f, g, p, m, Len(g.data)),
         R(Cardinality({i \in 1..Len(g.data) : Included(m, i)})))

MetricCalledOn(f) ==
    /\ pc = "called" /\ fn = f
    /\ IsNdArray(gt) /\ IsNdArray(pred) /\ gt.shape = pred.shape
    /\ mask.kind = "None" \/ (IsNdArray(mask) /\ mask.shape = gt.shape)

Filtered(a, m) == NdArray(<<Len(BoolIndex(a, m))>>, BoolIndex(a, m))

MeanOverIncluded ==
    /\ MetricCalledOn("abs_rel")
       => /\ ret.status = "ok"
          /\ ret.value = IncludedMean("abs_rel", gt, pred, mask)
          /\ mask.kind # "None"
             => ret.value = abs_rel(Filtered(gt, mask), Filtered(pred, mask), NoneVal).value
    /\ MetricCalledOn("rmse")
       => /\ ret.status = "ok"
          /\ ret.value = FSqrt(IncludedMean("rmse", gt, pred, mask))
          /\ mask.kind # "None"
             => ret.value = rmse(Filtered(gt, mask), Filtered(pred, mask), NoneVal).value

\* abs_rel over the first element alone: the second, masked out, would give 1
MeanOverIncludedWitness ==
    /\ MetricCalledOn("abs_rel")
    /\ mask.kind = "ndarray"
    /\ mask.data = <<TRUE, FALSE>>
    /\ gt.data = <<R(4), R(5)>> /\ pred.data = <<R(5), R(0)>>
    /\ ret.value = <<1, 4>>

---------------------------------------------------------------------------
(* C17 as stated.  threshold_accuracy(gt, pred, threshold, mask) returns    *)
(* the number of included elements with max(gt/pred, pred/gt) strictly less *)
(* than threshold divided by the number of included elements, which lies in *)
(* [0, 1] when an element is included; an included element with pred = 0 or *)
(* gt = 0 is counted as outside the threshold, and nothing is raised.       *)
ThresholdOfCall == IF kwargs = NoKwargs THEN Delta1Threshold ELSE kwargs.threshold

\* a / b < t for finite rationals a, b # 0 and t
RatioBelow(a, b, t) ==
    IF a[1] * b[1] > 0
    THEN Abs(a[1]) * b[2] * t[2] < t[1] * a[2] * Abs(b[1])
    ELSE -(Abs(a[1]) * b[2] * t[2]) < t[1] * a[2] * Abs(b[1])

\* the included elements within the threshold, the zero ones being outside
WithinThreshold(g, p, m, t) ==
    {i \in 1..Len(g.data) :
        /\ Included(m, i)
        /\ g.data[i] # Zero /\ p.data[i] # Zero
        /\ RatioBelow(g.data[i], p.data[i], t)
        /\ RatioBelow(p.data[i], g.data[i], t)}

ThresholdFraction ==
    MetricCalledOn("threshold_accuracy")
    => LET n == Cardinality({i \in 1..Len(gt.data) : Included(mask, i)})
           k == Cardinality(WithinThreshold(gt, pred, mask, ThresholdOfCall))
       IN  /\ ret.status = "ok"
           /\ ret.value = FDiv(R(k), R(n))
           /\ n > 0 => (~FLt(ret.value, Zero) /\ ~FGt(ret.value, One))

---------------------------------------------------------------------------
(* C18.  resize_depth_map(depth, (H', W'), interpolation) returns a grid of *)
(* shape exactly (H', W'), rows first, for larger and for smaller targets.  *)
(* With "nearest" every returned pixel (i, j) is the source pixel           *)
(* (floor(i * H / H'), floor(j * W / W')); every other flag, an unknown     *)
(* string included, returns without raising what the omitted flag returns:  *)
(* the bilinear map, whose pixels lie between the smallest and the largest  *)
(* source pixel and which is the source itself when the shape is kept.      *)
InterpolationOf(kw) ==
    IF "interpolation" \in DOMAIN kw THEN kw.interpolation ELSE "linear"

ResizeCalled == pc = "called" /\ fn = "resize_depth_map"

ResizeShapeAndFlag ==
    ResizeCalled
    => LET H == gt.shape[1]
           W == gt.shape[2]
           H2 == kwargs.target_shape[1]
           W2 == kwargs.target_shape[2]
           out == ret.value
       IN  /\ ret.status = "ok"
           /\ out.kind = "ndarray"
           /\ out.shape = <<H2, W2>>
           /\ Len(out.data) = H2 * W2
           /\ InterpolationOf(kwargs) = "nearest"
              => \A i \in 0..(H2 - 1), j \in 0..(W2 - 1) :
                    out.data[i * W2 + j + 1] =
                       gt.data[((i * H) \div H2) * W + ((j * W) \div W2) + 1]
           /\ InterpolationOf(kwargs) # "nearest"
              => /\ ret = resize_depth_map(gt, kwargs.target_shape, "linear")
                 /\ \A n \in 1..Len(out.data) :
                       /\ \E k \in 1..Len(gt.data) : FLe(gt.data[k], out.data[n])
                       /\ \E k \in 1..Len(gt.data) : FLe(out.data[n], gt.data[k])
                 /\ <<H2, W2>> = gt.shape => out = gt

\* an unknown flag on a larger target interpolates between the two pixels
ResizeWitness ==
    /\ ResizeCalled
    /\ InterpolationOf(kwargs) = "cubic"
    /\ gt.shape = <<1, 2>> /\ gt.data = <<R(4), R(5)>>
    /\ kwargs.target_shape = <<1, 4>>
    /\ ret.status = "ok"
    /\ ret.value.shape = <<1, 4>>
    /\ ret.value.data = <<R(4), <<17, 4>>, <<19, 4>>, R(5)>>

---------------------------------------------------------------------------
(* C19.  The pair (alpha, beta) scale_and_shift_align applies minimises the *)
(* sum over the fitted pixels of (alpha * pred - gt + beta)^2: the sum has  *)
(* zero gradient at the pair, which for this convex sum means that no pair  *)
(* gives a smaller one, and no pair near it gives a smaller one.  The       *)
(* fitted pixels are those where the mask is true, so the pair does not     *)
(* change with the values under a false mask element; with the mask omitted *)
(* they are exactly the pixels with gt > 0, and the call equals the call    *)
(* with mask = gt > 0.                                                      *)

\* pixel i takes part in the fit
Fitted(g, m, i) == IF m.kind = "None" THEN RatGreater(g.data[i], Zero) ELSE m.data[i]

\* over the fitted pixels among the first k, the sum of the squared residual
\* ("sq"), of the residual ("r") or of the residual times pred ("rx")
RECURSIVE FitSum(_, _, _, _, _, _, _)
FitSum(what, g, p, m, a, b, k) ==
    IF k = 0 THEN Zero
    ELSE IF ~Fitted(g, m, k) THEN FitSum(what, g, p, m, a, b, k - 1)
    ELSE LET res == FAdd(FSub(FMul(a, p.data[k]), g.data[k]), b)
         IN  FAdd(FitSum(what, g, p, m, a, b, k - 1),
                  CASE what = "sq" -> FMul(res, res)
                    [] what = "r" -> res
                    [] what = "rx" -> FMul(res, p.data[k]))

Nudges == {<<-1, 2>>, Zero, <<1, 2>>}

GtPositive(g) == NdArray(g.shape, [i \in 1..Len(g.data) |-> RatGreater(g.data[i], Zero)])

FitIsLeastSquares ==
    (AlignCalled /\ (mask.kind = "None" \/ (IsNdArray(mask) /\ mask.shape = gt.shape)))
    => LET ab == AlignParams(pred, gt, mask)
           n == Len(pred.data)
           best == FitSum("sq", gt, pred, mask, ab[1], ab[2], n)
       IN  /\ ret.status = "ok"
           /\ \A i \in 1..n : ret.value.data[i] = FAdd(FMul(ab[1], pred.data[i]), ab[2])
           /\ FitSum("r", gt, pred, mask, ab[1], ab[2], n) = Zero
           /\ FitSum("rx", gt, pred, mask, ab[1], ab[2], n) = Zero
           /\ \A da \in Nudges, db \in Nudges :
                 FLe(best, FitSum("sq", gt, pred, mask,
                                  FAdd(ab[1], da), FAdd(ab[2], db), n))
           /\ mask.kind # "None"
              => \A v \in MaskVals :
                    AlignParams(Fill(pred, mask, v), Fill(gt, mask, v), mask) = ab
           /\ mask.kind = "None"
              => ret.value = scale_and_shift_align(pred, gt, GtPositive(gt)).value

\* three fitted pixels that no line passes through: the best pair is
\* (3/2, -7/2) and leaves a residual
FitWitness ==
    /\ AlignCalled
    /\ mask.kind = "ndarray"
    /\ mask.data = <<TRUE, TRUE, TRUE>>
    /\ gt.data = <<R(4), R(5), R(0)>>
    /\ pred.data = <<R(5), R(4), R(4)>>
    /\ ret.status = "ok"
    /\ ret.value.data = <<R(4), <<5, 2>>, <<5, 2>>>>
    /\ AlignParams(pred, gt, mask) = <<<<3, 2>>, <<-7, 2>>>>

---------------------------------------------------------------------------
(* C20.  When a stage of evaluate raises, evaluate raises that error: every *)
(* earlier stage had returned, no later stage is run, and no result         *)
(* dictionary, with 'global' or with 'patches', is returned; a run that     *)
(* returns had no raising stage.  When resize_fn returns a prediction of    *)
(* another shape than gt, the run raises ValueError at the first stage that *)
(* compares the shapes: the aligner scale_and_shift_align, or               *)
(* global_metrics behind an aligner that compares nothing.                  *)
ResizedToOtherShape ==
    /\ Len(calls) >= 1
    /\ calls[1].out.status = "ok"
    /\ calls[1].out.value.shape # gt.shape

RaisedAtFirstViolation ==
    LET n == Len(calls)
    IN  /\ pc = "raised"
           => /\ n >= 1
              /\ calls[n].out.status # "ok"
              /\ \A i \in 1..(n - 1) : calls[i].out.status = "ok"
              /\ ret.status = calls[n].out.status
              /\ ret.value = << >>
        /\ pc = "returned" => \A i \in 1..n : calls[i].out.status = "ok"
        /\ ResizedToOtherShape
           => /\ pc \in {"resized", "masked", "aligned", "raised"}
              /\ pc = "aligned" => self.align_fn = "no_align"
              /\ pc = "raised"
                 => /\ ret.status = "ValueError"
                    /\ n = IF self.align_fn = "scale_and_shift_align" THEN 3 ELSE 4

\* a run that raised makes no further step: the next step is another call
RaisedIsFinal == pc = "raised" => pc' = "start"

ErrorsPropagate ==
    /\ []RaisedAtFirstViolation
    /\ [][RaisedIsFinal]_vars

\* the resizer kept a 2 x 1 prediction for a 1 x 2 ground truth and the
\* aligner raised before any metric was computed
ErrorsPropagateWitness ==
    /\ pc = "raised"
    /\ self.resize_fn = "keep_size" /\ self.align_fn = "scale_and_shift_align"
    /\ gt.shape = <<1, 2>> /\ pred.shape = <<2, 1>>
    /\ patch_size = <<1, 1>>
    /\ Len(calls) = 3
    /\ ret.status = "ValueError"
    /\ results = << >>

---------------------------------------------------------------------------
(* SpecShape: one call of a metric or of scale_and_shift_align on two       *)
(* 2 x 2 maps with a boolean mask of the maps' shape or of another one.     *)

\* the shape of the maps, and the mask shapes tried against it: the maps'
\* own, one row too many, one column too few, one row too few, the flattened
\* map, and one flag per row
ShapeOfMaps == <<2, 2>>

MaskShapes == {<<2, 2>>, <<3, 2>>, <<2, 1>>, <<1, 2>>, <<4>>, <<2>>}

ShapeInputs ==
    {Tiled(ShapeOfMaps, gp) : gp \in GtPalettes}
    \X {Tiled(ShapeOfMaps, pp) : pp \in PredPalettes}
    \X UNION {BoolArr(sh) : sh \in MaskShapes}

InitShape ==
    /\ pc = "start"
    /\ fn = "none"
    /\ \E c \in ShapeInputs : gt = c[1] /\ pred = c[2] /\ mask = c[3]
    /\ ret = NoRet
    /\ Idle

NextShape ==
    \/ CallAbsRel
    \/ CallThresholdAccuracy
    \/ CallRmse
    \/ CallAlign

SpecShape == InitShape /\ [][NextShape]_vars

---------------------------------------------------------------------------
(* C21.  abs_rel, threshold_accuracy, rmse and scale_and_shift_align raise  *)
(* a shape error whenever the mask's shape differs from the shape of gt and *)
(* pred, a mask with fewer dimensions included: no call with such a mask    *)
(* returns a value.                                                         *)
MaskedCall ==
    /\ pc = "called"
    /\ fn \in MetricFns \cup {"scale_and_shift_align"}
    /\ IsNdArray(gt) /\ IsNdArray(pred) /\ gt.shape = pred.shape
    /\ IsNdArray(mask)

ShapeErrors == {"ValueError", "IndexError"}

MaskShapeChecked ==
    (MaskedCall /\ mask.shape # gt.shape) => ret.status \in ShapeErrors

---------------------------------------------------------------------------
(* C22.  pad_to_aspect_ratio pads one axis only, by two amounts that are    *)
(* never negative and differ by at most 1, every added cell is pad_value    *)
(* and the image is kept as one block.  The padded length is the whole part *)
(* of target_ratio * H (width) or of W / target_ratio (height): the ratio   *)
(* of the result equals target_ratio when that number is whole, and         *)
(* otherwise stays on the image's side of it, less than one cell short.  An *)
(* image whose ratio is within 1e-6 of target_ratio is returned as it is.   *)
PadCalled ==
    /\ pc = "called"
    /\ fn = "pad_to_aspect_ratio"
    /\ FLt(Zero, kwargs.target_ratio)

PadValueOf == IF "pad_value" \in DOMAIN kwargs THEN kwargs.pad_value ELSE DefaultPadValue

\* out is image with top rows and left columns of v in front and the rest behind
IsPaddingOf(out, image, top, left, v) ==
    LET H == image.shape[1]
        W == image.shape[2]
        H2 == out.shape[1]
        W2 == out.shape[2]
    IN  /\ top + H <= H2
        /\ left + W <= W2
        /\ \A i \in 0..(H2 - 1), j \in 0..(W2 - 1) :
              out.data[i * W2 + j + 1] =
                 IF i >= top /\ i < top + H /\ j >= left /\ j < left + W
                 THEN image.data[(i - top) * W + (j - left) + 1]
                 ELSE v

\* one axis padded, symmetrically, with pad_value around the image
PaddedOneAxis ==
    LET out == ret.value
        dH == out.shape[1] - gt.shape[1]
        dW == out.shape[2] - gt.shape[2]
    IN  /\ ret.status = "ok"
        /\ IsNdArray(out) /\ Len(out.shape) = 2
        /\ dH >= 0 /\ dW >= 0
        /\ dH = 0 \/ dW = 0
        /\ \E top \in 0..dH, left \in 0..dW :
              /\ IsPaddingOf(out, gt, top, left, PadValueOf)
              /\ Abs((dH - top) - top) <= 1
              /\ Abs((dW - left) - left) <= 1

RatioOf(a) == FDiv(R(a.shape[2]), R(a.shape[1]))

---------------------------------------------------------------------------
(* C23.  threshold_accuracy counts an included element as accurate only if  *)
(* pred lies within a factor of threshold of gt: for gt > 0, only if        *)
(* gt / threshold < pred < gt * threshold.  The returned fraction is then   *)
(* at most the fraction of included elements within that factor, and no     *)
(* element with gt > 0 and pred zero or negative is counted.                *)

\* the included elements that may be counted: those with gt > 0 lie strictly
\* between gt / t and gt * t
WithinFactor(g, p, m, t) ==
    {i \in 1..Len(g.data) :
        /\ Included(m, i)
        /\ FLt(Zero, g.data[i])
           => /\ FLt(FDiv(g.data[i], t), p.data[i])
              /\ FLt(p.data[i], FMul(g.data[i], t))}

Delta1Sound ==
    (MetricCalledOn("threshold_accuracy") /\ ret.status = "ok")
    => LET n == Cardinality({i \in 1..Len(gt.data) : Included(mask, i)})
           k == Cardinality(WithinFactor(gt, pred, mask, ThresholdOfCall))
       IN  n > 0 => FLe(ret.value, FDiv(R(k), R(n)))

---------------------------------------------------------------------------
(* C24.  For a patch size with ph, pw >= 1, every valid pixel lies in       *)
(* exactly one emitted record, so the valid pixels of the records add up to *)
(* the valid pixels of the image; and AbsRel times the valid count, and     *)
(* RMSE squared times the valid count, summed over the records, are the     *)
(* sums of relative and of squared errors over all valid pixels, which are  *)
(* the sums global_metrics averages under the same mask.  (A valid pixel    *)
(* with gt = pred = 0 makes the relative sums undefined on both sides.)     *)

\* the square of a value FSqrt returned
SqOf(r) == IF Len(r) = 3 THEN <<r[1], r[2]>> ELSE FMul(r, r)

\* the number of valid pixels inside the rectangle of a record
ValidIn(rec) == Cardinality(RectPixels(rec) \cap ValidPixels(gt, mask))

\* over the first k records: the valid pixels ("count"), AbsRel times the
\* valid count ("abs_rel"), or RMSE squared times the valid count ("rmse")
RECURSIVE PatchTotal(_, _, _)
PatchTotal(what, recs, k) ==
    IF k = 0 THEN Zero
    ELSE FAdd(PatchTotal(what, recs, k - 1),
              CASE what = "count" -> R(ValidIn(recs[k]))
                [] what = "abs_rel" -> FMul(recs[k].AbsRel, R(ValidIn(recs[k])))
                [] what = "rmse" -> FMul(SqOf(recs[k].RMSE), R(ValidIn(recs[k]))))

PatchesAddUp ==
    (/\ PatchCalled
     /\ mask.kind = "None" \/ (IsNdArray(mask) /\ mask.shape = gt.shape)
     /\ patch_size[1] >= 1 /\ patch_size[2] >= 1)
    => LET recs == ret.value
           m == EffectiveMask(gt, mask)
           n == Len(gt.data)
           N == Cardinality(ValidPixels(gt, mask))
           glob == global_metrics(gt, pred, mask)
           rel == IncludedSum("abs_rel", gt, pred, m, n)
           sq == IncludedSum("rmse", gt, pred, m, n)
       IN  /\ ret.status = "ok"
           /\ \A px \in ValidPixels(gt, mask) :
                 Cardinality({k \in 1..Len(recs) : px \in RectPixels(recs[k])}) = 1
           /\ PatchTotal("count", recs, Len(recs)) = R(N)
           /\ PatchTotal("abs_rel", recs, Len(recs)) = rel
           /\ PatchTotal("rmse", recs, Len(recs)) = sq
           /\ N > 0 => /\ glob.status = "ok"
                       /\ FMul(glob.value.AbsRel, R(N)) = rel
                       /\ FMul(SqOf(glob.value.RMSE), R(N)) = sq

\* a 1 x 3 image cut into single pixels, the middle one masked out: two
\* records, whose relative errors 1/4 and 1/5 add up to 9/20
PatchesAddUpWitness ==
    /\ PatchCalled
    /\ patch_size = <<1, 1>>
    /\ gt = NdArray(<<1, 3>>, <<R(4), R(4), R(5)>>)
    /\ pred = NdArray(<<1, 3>>, <<R(5), R(4), R(4)>>)
    /\ mask.kind = "ndarray" /\ mask.data = <<TRUE, FALSE, TRUE>>
    /\ ret.status = "ok"
    /\ Len(ret.value) = 2
    /\ PatchTotal("abs_rel", ret.value, 2) = <<9, 20>>
    /\ PatchTotal("rmse", ret.value, 2) = R(2)

=============================================================================
